---------------------------- MODULE Spec2Model ----------------------------
(***************************************************************************)
(* A model of better-brows: the Outline Builder (axTreeToSnapshot), the    *)
(* Reducer Pipeline (snapshot-optimizer.js), the Differ                    *)
(* (snapshot-differ.js), the Browser's handle map and the agent loop       *)
(* (browseWeb).                                                            *)
(*                                                                         *)
(* Text is modelled structurally.  A name is a sequence of atoms (a word,  *)
(* a run of blanks, an ellipsis), each with the number of characters it    *)
(* holds, so that length tests, slicing and word splitting are computed.   *)
(* An outline line is the tuple that the text                              *)
(*     <sp blanks>- <role>[ "<name>"][<rest tokens>]                       *)
(* spells; an outline (a string with newlines) is the sequence of its      *)
(* lines.  The two parsers of the program, parseLine and ELEMENT_RE, are   *)
(* operators over that tuple and do not agree with each other everywhere.  *)
(***************************************************************************)
EXTENDS Naturals, Integers, Sequences, FiniteSets, TLC

(***************************************************************************)
(* Generic helpers.                                                        *)
(***************************************************************************)
Range(s) == { s[i] : i \in DOMAIN s }

Min2(a, b) == IF a <= b THEN a ELSE b

RECURSIVE SelectIdx(_, _, _)
\* the first index i >= from of s with s[i] \in S, or 0
SelectIdx(s, from, S) ==
  IF from > Len(s) THEN 0
  ELSE IF s[from] \in S THEN from
  ELSE SelectIdx(s, from + 1, S)

\* Array.prototype.slice(0, k)
Take(s, k) == SubSeq(s, 1, Min2(k, Len(s)))

\* the empty Map
EmptyMap == [r \in {} |-> 0]

\* Map.prototype.set
MapSet(m, k, v) == [r \in DOMAIN m \cup {k} |-> IF r = k THEN v ELSE m[r]]

(***************************************************************************)
(* Role vocabulary.                                                        *)
(***************************************************************************)
INTERACTIVE_ROLES ==
  { "button", "link", "textbox", "checkbox", "radio", "combobox", "listbox",
    "menuitem", "menuitemcheckbox", "menuitemradio", "option", "searchbox",
    "slider", "spinbutton", "switch", "tab", "treeitem" }

SKIP_ROLES ==
  { "none", "presentation", "InlineTextBox", "LineBreak",
    "StaticText", "RootWebArea", "ignored" }

\* mapRole's table: CDP role -> ARIA role
RoleMap ==
  [ button |-> "button", link |-> "link", textbox |-> "textbox", TextField |-> "textbox",
    checkbox |-> "checkbox", radio |-> "radio", combobox |-> "combobox",
    listbox |-> "listbox", menuitem |-> "menuitem", option |-> "option",
    searchbox |-> "searchbox", slider |-> "slider", spinbutton |-> "spinbutton",
    switch |-> "switch", tab |-> "tab", treeitem |-> "treeitem",
    heading |-> "heading", cell |-> "cell", gridcell |-> "gridcell",
    columnheader |-> "columnheader", rowheader |-> "rowheader",
    listitem |-> "listitem", article |-> "article", region |-> "region",
    main |-> "main", navigation |-> "navigation", dialog |-> "dialog",
    document |-> "document", group |-> "group", list |-> "list",
    table |-> "table", row |-> "row", generic |-> "generic",
    text |-> "text", strong |-> "strong", emphasis |-> "emphasis",
    paragraph |-> "text", Section |-> "region", WebArea |-> "document",
    banner |-> "banner", contentinfo |-> "contentinfo",
    complementary |-> "region", form |-> "group", search |-> "searchbox",
    img |-> "img", image |-> "img", figure |-> "figure",
    menu |-> "menu", menubar |-> "menubar", toolbar |-> "toolbar",
    tablist |-> "tablist", tree |-> "tree", grid |-> "grid",
    rowgroup |-> "rowgroup", status |-> "status", alert |-> "alert",
    separator |-> "separator", progressbar |-> "progressbar" ]

\* the value of `map[cdpRole] || null` when the role is not in the table
NoRole == ""

mapRole(cdpRole) == IF cdpRole \in DOMAIN RoleMap THEN RoleMap[cdpRole] ELSE NoRole

\* the spelling of every role word, for prefix tests
Spelling ==
  [
    button |-> <<"b", "u", "t", "t", "o", "n">>,
    link |-> <<"l", "i", "n", "k">>,
    textbox |-> <<"t", "e", "x", "t", "b", "o", "x">>,
    checkbox |-> <<"c", "h", "e", "c", "k", "b", "o", "x">>,
    radio |-> <<"r", "a", "d", "i", "o">>,
    combobox |-> <<"c", "o", "m", "b", "o", "b", "o", "x">>,
    listbox |-> <<"l", "i", "s", "t", "b", "o", "x">>,
    menuitem |-> <<"m", "e", "n", "u", "i", "t", "e", "m">>,
    menuitemcheckbox |-> <<"m", "e", "n", "u", "i", "t", "e", "m", "c", "h", "e", "c", "k", "b", "o", "x">>,
    menuitemradio |-> <<"m", "e", "n", "u", "i", "t", "e", "m", "r", "a", "d", "i", "o">>,
    option |-> <<"o", "p", "t", "i", "o", "n">>,
    searchbox |-> <<"s", "e", "a", "r", "c", "h", "b", "o", "x">>,
    slider |-> <<"s", "l", "i", "d", "e", "r">>,
    spinbutton |-> <<"s", "p", "i", "n", "b", "u", "t", "t", "o", "n">>,
    switch |-> <<"s", "w", "i", "t", "c", "h">>,
    tab |-> <<"t", "a", "b">>,
    treeitem |-> <<"t", "r", "e", "e", "i", "t", "e", "m">>,
    heading |-> <<"h", "e", "a", "d", "i", "n", "g">>,
    cell |-> <<"c", "e", "l", "l">>,
    gridcell |-> <<"g", "r", "i", "d", "c", "e", "l", "l">>,
    columnheader |-> <<"c", "o", "l", "u", "m", "n", "h", "e", "a", "d", "e", "r">>,
    rowheader |-> <<"r", "o", "w", "h", "e", "a", "d", "e", "r">>,
    listitem |-> <<"l", "i", "s", "t", "i", "t", "e", "m">>,
    article |-> <<"a", "r", "t", "i", "c", "l", "e">>,
    region |-> <<"r", "e", "g", "i", "o", "n">>,
    main |-> <<"m", "a", "i", "n">>,
    navigation |-> <<"n", "a", "v", "i", "g", "a", "t", "i", "o", "n">>,
    dialog |-> <<"d", "i", "a", "l", "o", "g">>,
    document |-> <<"d", "o", "c", "u", "m", "e", "n", "t">>,
    group |-> <<"g", "r", "o", "u", "p">>,
    list |-> <<"l", "i", "s", "t">>,
    table |-> <<"t", "a", "b", "l", "e">>,
    row |-> <<"r", "o", "w">>,
    generic |-> <<"g", "e", "n", "e", "r", "i", "c">>,
    text |-> <<"t", "e", "x", "t">>,
    strong |-> <<"s", "t", "r", "o", "n", "g">>,
    emphasis |-> <<"e", "m", "p", "h", "a", "s", "i", "s">>,
    mark |-> <<"m", "a", "r", "k">>,
    banner |-> <<"b", "a", "n", "n", "e", "r">>,
    contentinfo |-> <<"c", "o", "n", "t", "e", "n", "t", "i", "n", "f", "o">>,
    img |-> <<"i", "m", "g">>,
    figure |-> <<"f", "i", "g", "u", "r", "e">>,
    menu |-> <<"m", "e", "n", "u">>,
    menubar |-> <<"m", "e", "n", "u", "b", "a", "r">>,
    toolbar |-> <<"t", "o", "o", "l", "b", "a", "r">>,
    tablist |-> <<"t", "a", "b", "l", "i", "s", "t">>,
    tree |-> <<"t", "r", "e", "e">>,
    grid |-> <<"g", "r", "i", "d">>,
    rowgroup |-> <<"r", "o", "w", "g", "r", "o", "u", "p">>,
    status |-> <<"s", "t", "a", "t", "u", "s">>,
    alert |-> <<"a", "l", "e", "r", "t">>,
    separator |-> <<"s", "e", "p", "a", "r", "a", "t", "o", "r">>,
    progressbar |-> <<"p", "r", "o", "g", "r", "e", "s", "s", "b", "a", "r">>
  ]

(***************************************************************************)
(* Names.  An atom is [t, n, r, x]: the word t, of which the first n       *)
(* characters are present; r and x are used only by the summary atom that  *)
(* smartTruncate writes.  TokLen gives the full length of each word.       *)
(***************************************************************************)
Blank == " "
Dots == "..."

TokLen ==
  [ t \in { "Go", "Delete", "Save", "Home", "News", "Title", "Cookie", "Privacy",
            "Sponsored", "settings", "Nonstop", "nonstop", "chrome-actions",
            "W119", "W60", "W130", "w5", "Itinerary", "ItineraryShort",
            "From 320 US dollars", "$320", "https://a.test/p?u=1", "a.test/p",
            Blank, Dots } |->
      CASE t = "Go" -> 2
        [] t = "Delete" -> 6
        [] t = "Save" -> 4
        [] t = "Home" -> 4
        [] t = "News" -> 4
        [] t = "Title" -> 5
        [] t = "Cookie" -> 6
        [] t = "Privacy" -> 7
        [] t = "Sponsored" -> 9
        [] t = "settings" -> 8
        [] t = "Nonstop" -> 7
        [] t = "nonstop" -> 7
        [] t = "chrome-actions" -> 14
        [] t = "W119" -> 119
        [] t = "W60" -> 60
        [] t = "W130" -> 130
        [] t = "w5" -> 5
        [] t = "Itinerary" -> 172
        [] t = "ItineraryShort" -> 46
        [] t = "From 320 US dollars" -> 19
        [] t = "$320" -> 4
        [] t = "https://a.test/p?u=1" -> 20
        [] t = "a.test/p" -> 8
        [] t = Blank -> 1
        [] t = Dots -> 3 ]

Atom(t) == [t |-> t, n |-> TokLen[t], r |-> "", x |-> <<>>]

\* a one-word name, and a name of words joined by single blanks
Nm(t) == << Atom(t) >>
Nm2(t, u) == << Atom(t), Atom(Blank), Atom(u) >>

IsWs(a) == a.t = Blank

RECURSIVE NameLength(_)
\* String.prototype.length
NameLength(name) ==
  IF name = <<>> THEN 0 ELSE Head(name).n + NameLength(Tail(name))

\* String.prototype.toLowerCase, word by word
LowerTok(t) ==
  CASE t = "Go" -> "go"
    [] t = "Delete" -> "delete"
    [] t = "Save" -> "save"
    [] t = "Home" -> "home"
    [] t = "News" -> "news"
    [] t = "Title" -> "title"
    [] t = "Cookie" -> "cookie"
    [] t = "Privacy" -> "privacy"
    [] t = "Sponsored" -> "sponsored"
    [] t = "Nonstop" -> "nonstop"
    [] OTHER -> t

toLowerCase(name) == [i \in DOMAIN name |-> [name[i] EXCEPT !.t = LowerTok(@)]]

(***************************************************************************)
(* Outline lines.  [sp, role, q, name, rest] spells                        *)
(*     sp blanks, "- ", role, then ' "name"' when q, then the rest tokens. *)
(* A rest token [k, n] is ' [ref=e<n>]' (k = "ref") or ' [level=<n>]'      *)
(* (k = "level").  A blank line has role "".                               *)
(***************************************************************************)
Line(sp, role, q, name, rest) ==
  [sp |-> sp, role |-> role, q |-> q, name |-> name, rest |-> rest]

BlankLine == Line(0, "", FALSE, <<>>, <<>>)

RefTok(n) == [k |-> "ref", n |-> n]
LevelTok(n) == [k |-> "level", n |-> n]

\* String.prototype.split('\n'): the empty string is one blank line
Split(snapshot) == IF snapshot = <<>> THEN << BlankLine >> ELSE snapshot

\* Array.prototype.join('\n')
Join(lines) == IF lines = << BlankLine >> THEN <<>> ELSE lines

\* /\[ref=(e\d+)\]/ on a line: its first reference, 0 when there is none
REF_PATTERN(line) ==
  LET i == SelectIdx([j \in DOMAIN line.rest |-> line.rest[j].k], 1, {"ref"})
  IN IF i = 0 THEN 0 ELSE line.rest[i].n

RECURSIVE RefsOfRest(_)
RefsOfRest(rest) ==
  IF rest = <<>> THEN <<>>
  ELSE (IF Head(rest).k = "ref" THEN << Head(rest).n >> ELSE <<>>) \o RefsOfRest(Tail(rest))

RECURSIVE collectRefs(_)
\* every [ref=e<n>] of the lines, in order
collectRefs(lines) ==
  IF lines = <<>> THEN <<>>
  ELSE RefsOfRest(Head(lines).rest) \o collectRefs(Tail(lines))

indentLevel(line) == line.sp \div 2

\* \w+ : the role of an element line; '/url:' and the empty role are not words
IsWord(role) == role \in DOMAIN Spelling

NoParse ==
  [ok |-> FALSE, prefix |-> 0, role |-> "", hasName |-> FALSE, name |-> <<>>,
   suffix |-> <<>>, ref |-> 0]

\* /^(\s*-\s*)(\w+)(?:\s+"([^"]*)")?(.*)$/ ; hasName = FALSE is name === null
parseLine(line) ==
  IF ~IsWord(line.role) THEN NoParse
  ELSE [ok |-> TRUE, prefix |-> line.sp, role |-> line.role, hasName |-> line.q,
        name |-> line.name, suffix |-> line.rest, ref |-> REF_PATTERN(line)]

\* `p.name` as a condition: neither null nor ''
Truthy(p) == p.hasName /\ p.name # <<>>

RECURSIVE getSubtreeEndFrom(_, _, _)
getSubtreeEndFrom(lines, end, startIndent) ==
  IF end <= Len(lines) /\ indentLevel(lines[end]) > startIndent
  THEN getSubtreeEndFrom(lines, end + 1, startIndent)
  ELSE end

\* index (1-based) of the first line after the subtree rooted at startIdx
getSubtreeEnd(lines, startIdx) ==
  getSubtreeEndFrom(lines, startIdx + 1, indentLevel(lines[startIdx]))

buildLine(prefix, role, hasName, name, suffix) ==
  Line(prefix, role, hasName, IF hasName THEN name ELSE <<>>, suffix)

(***************************************************************************)
(* Outline Builder.  An accessibility node is                              *)
(* [nodeId, parentId, role, name, backendDOMNodeId, ignored]; parentId 0   *)
(* and backendDOMNodeId 0 stand for an absent field.                       *)
(***************************************************************************)
AXNode(nodeId, parentId, role, name, dom) ==
  [nodeId |-> nodeId, parentId |-> parentId, role |-> role, name |-> name,
   backendDOMNodeId |-> dom, ignored |-> FALSE]

\* nodeMap.get(nodeId): the last node of the list with that id
NodeOf(nodes, nodeId) ==
  nodes[CHOOSE i \in DOMAIN nodes :
          /\ nodes[i].nodeId = nodeId
          /\ \A j \in DOMAIN nodes : nodes[j].nodeId = nodeId => j <= i]

RECURSIVE ChildrenFrom(_, _, _)
ChildrenFrom(nodes, i, nodeId) ==
  IF i > Len(nodes) THEN <<>>
  ELSE (IF nodes[i].parentId = nodeId THEN << nodes[i].nodeId >> ELSE <<>>)
       \o ChildrenFrom(nodes, i + 1, nodeId)

\* childMap.get(nodeId) || []
childMap(nodes, nodeId) == ChildrenFrom(nodes, 1, nodeId)

\* a condition that gives every named node a reference
AssignsRefAnyName(mappedRole, name) ==
  \/ mappedRole \in INTERACTIVE_ROLES
  \/ name # <<>>

\* the condition under which renderNode assigns a reference
AssignsRef(mappedRole, name) ==
  \/ mappedRole \in INTERACTIVE_ROLES
  \/ (name # <<>> /\ mappedRole # "generic" /\ mappedRole # "text")

\* refMap after a node got reference refId: only a node with a handle is entered
RefMapAfter(refMap, refId, node) ==
  IF node.backendDOMNodeId # 0 THEN MapSet(refMap, refId, node.backendDOMNodeId)
  ELSE refMap

RECURSIVE renderNode(_, _, _, _)
RECURSIVE renderChildren(_, _, _, _)

\* a counter that leaves a number out at every assignment
NextRefSkipping(refCounter) == refCounter + 2

\* refCounter++
NextRef(refCounter) == refCounter + 1

\* st = [lines, refMap, refCounter], the variables renderNode closes over
renderNode(nodes, nodeId, depth, st) ==
  IF \A i \in DOMAIN nodes : nodes[i].nodeId # nodeId THEN st
  ELSE
  LET node == NodeOf(nodes, nodeId)
      role == node.role
      name == node.name
      children == childMap(nodes, nodeId)
      mappedRole == mapRole(role)
  IN
  IF role = "InlineTextBox" \/ role = "LineBreak" THEN st
  ELSE IF role \in SKIP_ROLES \/ role = "none" THEN renderChildren(nodes, children, depth, st)
  ELSE IF mappedRole = NoRole THEN renderChildren(nodes, children, depth, st)
  ELSE IF node.ignored /\ children = <<>> THEN st
  ELSE
    LET tagged == AssignsRef(mappedRole, name)
        refId == NextRef(st.refCounter)
        st1 == IF tagged
               THEN [st EXCEPT !.refCounter = refId,
                               !.refMap = RefMapAfter(st.refMap, refId, node)]
               ELSE st
        line == Line(2 * depth, mappedRole, name # <<>>, name,
                     IF tagged THEN << RefTok(refId) >> ELSE <<>>)
    IN renderChildren(nodes, children, depth + 1,
                      [st1 EXCEPT !.lines = Append(st1.lines, line)])

\* for (const childId of children) renderNode(childId, depth): the children in
\* order, each on the state the one before left (the list is walked by halves)
renderChildren(nodes, cids, depth, st) ==
  IF cids = <<>> \/ st.refCounter < 0 THEN st
  ELSE IF Len(cids) = 1 THEN renderNode(nodes, Head(cids), depth, st)
  ELSE LET half == Len(cids) \div 2
       IN renderChildren(nodes, SubSeq(cids, half + 1, Len(cids)), depth,
                         renderChildren(nodes, SubSeq(cids, 1, half), depth, st))

axTreeToSnapshot(nodes) ==
  IF nodes = <<>> THEN [snapshot |-> <<>>, refMap |-> EmptyMap]
  ELSE
    LET i == SelectIdx([j \in DOMAIN nodes |-> nodes[j].parentId], 1, {0})
        root == IF i = 0 THEN nodes[1] ELSE nodes[i]
        st == renderChildren(nodes, childMap(nodes, root.nodeId), 0,
                             [lines |-> <<>>, refMap |-> EmptyMap, refCounter |-> 0])
    IN [snapshot |-> Join(st.lines), refMap |-> st.refMap]

(***************************************************************************)
(* Reducer Pipeline (snapshot-optimizer.js).                               *)
(***************************************************************************)

\* /skip to|cookie|privacy|terms of service/i on a name
MatchesChromeWords(name) ==
  \E i \in DOMAIN name :
    /\ LowerTok(name[i].t) \in {"skip to", "cookie", "privacy", "terms of service"}
    /\ name[i].n = TokLen[name[i].t]

\* /^Advertisement|^Promoted|^Sponsored/i on a name
MatchesAdStart(name) ==
  /\ name # <<>>
  /\ LowerTok(name[1].t) \in {"advertisement", "promoted", "sponsored"}
  /\ name[1].n = TokLen[name[1].t]

isChromeLine(parsed, lines, idx) ==
  \/ parsed.role = "banner" \/ parsed.role = "contentinfo"
  \/ (parsed.role = "navigation" /\ indentLevel(lines[idx]) <= 1)
  \/ (Truthy(parsed) /\ MatchesChromeWords(parsed.name) /\ indentLevel(lines[idx]) <= 1)
  \/ (Truthy(parsed) /\ MatchesAdStart(parsed.name))

\* a stripChrome that rescues no reference
ChromeRefOfNone(p) == <<>>

\* the entry stripChrome pushes on chromeRefs for a dropped line, if any
ChromeRefOf(p) ==
  IF p.ok /\ p.ref # 0 /\ p.role \in INTERACTIVE_ROLES
  THEN << [ref |-> p.ref, role |-> p.role, hasName |-> p.hasName, name |-> p.name] >>
  ELSE <<>>

\* a summary that lists the rescued references last first
ChromeActionsReversed(chromeRefs) ==
  IF chromeRefs = <<>> THEN <<>>
  ELSE << Line(0, "group", TRUE, Nm("chrome-actions"), <<>>) >>
       \o [i \in DOMAIN chromeRefs |->
             LET r == chromeRefs[Len(chromeRefs) + 1 - i]
                 named == r.hasName /\ r.name # <<>>
             IN Line(2, r.role, named, IF named THEN r.name ELSE <<>>, << RefTok(r.ref) >>)]

\* the lines of the appended summary: the group line and one line per rescued ref
ChromeActions(chromeRefs) ==
  IF chromeRefs = <<>> THEN <<>>
  ELSE << Line(0, "group", TRUE, Nm("chrome-actions"), <<>>) >>
       \o [i \in DOMAIN chromeRefs |->
             LET r == chromeRefs[i]
                 named == r.hasName /\ r.name # <<>>
             IN Line(2, r.role, named, IF named THEN r.name ELSE <<>>, << RefTok(r.ref) >>)]

RECURSIVE stripChromeLoop(_, _, _)
\* st = [result, skipUntilIndent, chromeRefs]
stripChromeLoop(lines, i, st) ==
  IF i > Len(lines) THEN st
  ELSE
    LET line == lines[i]
        indent == indentLevel(line)
        p == parseLine(line)
    IN IF st.skipUntilIndent >= 0 /\ indent > st.skipUntilIndent
       THEN stripChromeLoop(lines, i + 1,
              [st EXCEPT !.chromeRefs = @ \o ChromeRefOf(p)])
       ELSE IF p.ok /\ isChromeLine(p, lines, i)
       THEN stripChromeLoop(lines, i + 1,
              [st EXCEPT !.chromeRefs = @ \o ChromeRefOf(p), !.skipUntilIndent = indent])
       ELSE stripChromeLoop(lines, i + 1,
              [st EXCEPT !.result = Append(@, line), !.skipUntilIndent = -1])

stripChrome(snapshot) ==
  LET st == stripChromeLoop(Split(snapshot), 1,
              [result |-> <<>>, skipUntilIndent |-> -1, chromeRefs |-> <<>>])
  IN Join(st.result \o ChromeActions(st.chromeRefs))

\* new URL(url): hostname + pathname of a name that is one bare URL
UrlHostPath(name) ==
  IF Len(name) = 1 /\ name[1].t = "https://a.test/p?u=1" /\ name[1].n = TokLen[name[1].t]
  THEN Nm("a.test/p") ELSE name

\* the bracketed attributes pruneAttributes deletes; a reference is not one of them
PrunedAttrs == {"url", "description", "focused", "disabled", "level"}

pruneLine(line) ==
  [line EXCEPT !.name = UrlHostPath(@),
               !.rest = SelectSeq(@, LAMBDA tok : tok.k \notin PrunedAttrs)]

pruneAttributes(snapshot) ==
  LET lines == Split(snapshot)
      kept == SelectSeq(lines, LAMBDA line : line.role # "/url:")
  IN Join([i \in DOMAIN kept |-> pruneLine(kept[i])])

\* the lines removeNoise deletes: '- /placeholder:...', '- text:' and '- text: "<blanks>"'
\* (a rest token [k |-> "value", n] spells ':' alone (n = 0), ': "<blanks>"' (n = 1)
\*  or ': "<words>"' (n = 2))
IsNoiseLine(line) ==
  \/ line.role = "/placeholder:"
  \/ /\ line.role = "text"
     /\ ~line.q
     /\ Len(line.rest) = 1
     /\ line.rest[1].k = "value"
     /\ line.rest[1].n \in {0, 1}

removeNoise(snapshot) ==
  Join(SelectSeq(Split(snapshot), LAMBDA line : ~IsNoiseLine(line)))

RECURSIVE PopScopes(_, _)
\* while (scopeStack.length > 0 && indent <= top.indent) scopeStack.pop()
PopScopes(scopeStack, indent) ==
  IF scopeStack # <<>> /\ indent <= scopeStack[Len(scopeStack)].indent
  THEN PopScopes(SubSeq(scopeStack, 1, Len(scopeStack) - 1), indent)
  ELSE scopeStack

RECURSIVE dedupLinksLoop(_, _, _)
\* st = [result, scopeStack]
dedupLinksLoop(lines, i, st) ==
  IF i > Len(lines) THEN st
  ELSE
    LET line == lines[i]
        indent == indentLevel(line)
        p == parseLine(line)
        stack == PopScopes(st.scopeStack, indent)
        top == Len(stack)
    IN IF p.ok /\ p.role = "article"
       THEN dedupLinksLoop(lines, i + 1,
              [result |-> Append(st.result, line),
               scopeStack |-> Append(stack, [indent |-> indent, seenNames |-> {}])])
       ELSE IF p.ok /\ p.role = "link" /\ Truthy(p) /\ stack # <<>>
                 /\ p.name \in stack[top].seenNames
       THEN dedupLinksLoop(lines, getSubtreeEnd(lines, i),
              [result |-> st.result, scopeStack |-> stack])
       ELSE
         LET stack2 == IF p.ok /\ p.role = "link" /\ Truthy(p) /\ stack # <<>>
                       THEN [stack EXCEPT ![top].seenNames = @ \cup {p.name}]
                       ELSE stack
         IN IF p.ok /\ p.role = "img" /\ ~Truthy(p)
            THEN dedupLinksLoop(lines, i + 1, [result |-> st.result, scopeStack |-> stack2])
            ELSE dedupLinksLoop(lines, i + 1,
                   [result |-> Append(st.result, line), scopeStack |-> stack2])

dedupLinks(snapshot) ==
  Join(dedupLinksLoop(Split(snapshot), 1, [result |-> <<>>, scopeStack |-> <<>>]).result)

RECURSIVE WordsFrom(_, _, _)
\* name.split(/\s+/), without the empty pieces: the runs of atoms between blanks
WordsFrom(name, i, cur) ==
  IF i > Len(name) THEN (IF cur = <<>> THEN <<>> ELSE << cur >>)
  ELSE IF IsWs(name[i])
       THEN (IF cur = <<>> THEN <<>> ELSE << cur >>) \o WordsFrom(name, i + 1, <<>>)
       ELSE WordsFrom(name, i + 1, Append(cur, name[i]))

Words(name) == WordsFrom(name, 1, <<>>)

\* String.prototype.includes: the word occurs in the name (its last atom may be a prefix)
Includes(name, word) ==
  \E k \in 1..Len(name) :
    /\ k + Len(word) - 1 <= Len(name)
    /\ \A j \in 1..Len(word) :
         /\ name[k + j - 1].t = word[j].t
         /\ word[j].n <= name[k + j - 1].n
         /\ (j < Len(word) => word[j].n = name[k + j - 1].n)

\* collapseRedundantChildren's test of one descendant line against the parent's name
\* a test of redundancy that does not look at the child's reference
ChildIsRedundantByNameOnly(child, parentNameLower) ==
  /\ child.ok
  /\ (Truthy(child) =>
        LET childWords == SelectSeq(Words(toLowerCase(child.name)),
                                    LAMBDA w : NameLength(w) > 3)
            contained == SelectSeq(childWords, LAMBDA w : Includes(parentNameLower, w))
        IN ~(10 * Len(contained) < 6 * Len(childWords)))

ChildIsRedundant(child, parentNameLower) ==
  /\ child.ok
  /\ ~(child.ref # 0 /\ child.role \in INTERACTIVE_ROLES)
  /\ (Truthy(child) =>
        LET childWords == SelectSeq(Words(toLowerCase(child.name)),
                                    LAMBDA w : NameLength(w) > 3)
            contained == SelectSeq(childWords, LAMBDA w : Includes(parentNameLower, w))
        IN ~(10 * Len(contained) < 6 * Len(childWords)))

RECURSIVE collapseLoop(_, _, _)
collapseLoop(lines, i, result) ==
  IF i > Len(lines) THEN result
  ELSE
    LET line == lines[i]
        p == parseLine(line)
        subtreeEnd == getSubtreeEnd(lines, i)
        allRedundant ==
          \A j \in (i + 1)..(subtreeEnd - 1) :
            ChildIsRedundant(parseLine(lines[j]), toLowerCase(p.name))
    IN IF /\ p.ok /\ Truthy(p) /\ NameLength(p.name) > 40
          /\ (p.role = "link" \/ p.role = "button")
          /\ allRedundant /\ subtreeEnd > i + 1
       THEN collapseLoop(lines, subtreeEnd, Append(result, line))
       ELSE collapseLoop(lines, i + 1, Append(result, line))

collapseRedundantChildren(snapshot) ==
  Join(collapseLoop(Split(snapshot), 1, <<>>))

\* compressFlightName: a name holding price, departure and arrival is rewritten whole
compressFlightName(name) ==
  IF \E i \in DOMAIN name : name[i].t = "Itinerary" /\ name[i].n = TokLen["Itinerary"]
  THEN Nm("ItineraryShort") ELSE name

\* /From (\d+) US dollars?/gi and /(\d+) US dollars?/gi -> $N
Dollars(a) == IF a.t = "From 320 US dollars" /\ a.n = TokLen[a.t] THEN Atom("$320") ELSE a

\* /\bNonstop\b/gi -> nonstop
StopWords(a) == IF a.t = "Nonstop" /\ a.n = TokLen[a.t] THEN Atom("nonstop") ELSE a

RECURSIVE TrimLeft(_)
TrimLeft(name) == IF name # <<>> /\ IsWs(Head(name)) THEN TrimLeft(Tail(name)) ELSE name

RECURSIVE TrimRight(_)
TrimRight(name) ==
  IF name # <<>> /\ IsWs(name[Len(name)])
  THEN TrimRight(SubSeq(name, 1, Len(name) - 1)) ELSE name

\* String.prototype.trim on a name
TrimName(name) == TrimRight(TrimLeft(name))

\* .replace(/\s{2,}/g, ' ')
CollapseWs(name) == [i \in DOMAIN name |-> IF IsWs(name[i]) THEN Atom(Blank) ELSE name[i]]

compressName(name) ==
  LET n1 == [i \in DOMAIN name |-> Dollars(name[i])]
      n2 == TrimName(CollapseWs(n1))
  IN [i \in DOMAIN n2 |-> StopWords(n2[i])]

semanticLine(line) ==
  LET p == parseLine(line)
  IN IF ~p.ok \/ ~Truthy(p) THEN line
     ELSE IF compressFlightName(p.name) # p.name
          THEN buildLine(p.prefix, p.role, TRUE, compressFlightName(p.name), p.suffix)
          ELSE IF compressName(p.name) # p.name
               THEN buildLine(p.prefix, p.role, TRUE, compressName(p.name), p.suffix)
               ELSE line

semanticCompress(snapshot) ==
  LET lines == Split(snapshot)
  IN Join([i \in DOMAIN lines |-> semanticLine(lines[i])])

RECURSIVE SliceName(_, _)
\* String.prototype.slice(0, k) on a name
SliceName(name, k) ==
  IF name = <<>> \/ k = 0 THEN <<>>
  ELSE IF Head(name).n <= k THEN << Head(name) >> \o SliceName(Tail(name), k - Head(name).n)
  ELSE << [Head(name) EXCEPT !.n = k] >>

RECURSIVE LastWs(_, _)
\* index of the last atom of blanks, 0 when there is none
LastWs(name, i) ==
  IF i = 0 THEN 0 ELSE IF IsWs(name[i]) THEN i ELSE LastWs(name, i - 1)

\* .replace(/\s\S*$/, ''): cut from the last blank character on
CutLastWord(name) ==
  LET i == LastWs(name, Len(name))
  IN IF i = 0 THEN name
     ELSE IF name[i].n > 1
          THEN SubSeq(name, 1, i - 1) \o << [name[i] EXCEPT !.n = @ - 1] >>
          ELSE SubSeq(name, 1, i - 1)

truncateName(name, maxNameLength) ==
  CutLastWord(SliceName(name, maxNameLength)) \o << Atom(Dots) >>

truncateLine(line, maxNameLength) ==
  LET p == parseLine(line)
  IN IF p.ok /\ Truthy(p) /\ NameLength(p.name) > maxNameLength
     THEN buildLine(p.prefix, p.role, TRUE, truncateName(p.name, maxNameLength), p.suffix)
     ELSE line

truncateLongNames(snapshot, maxNameLength) ==
  LET lines == Split(snapshot)
  IN Join([i \in DOMAIN lines |-> truncateLine(lines[i], maxNameLength)])

RECURSIVE countSiblingsFrom(_, _, _, _)
countSiblingsFrom(lines, i, indent, role) ==
  IF i > Len(lines) \/ indentLevel(lines[i]) < indent THEN 0
  ELSE (IF /\ indentLevel(lines[i]) = indent
           /\ parseLine(lines[i]).ok
           /\ parseLine(lines[i]).role = role
        THEN 1 ELSE 0)
       + countSiblingsFrom(lines, i + 1, indent, role)

countSiblings(lines, startIdx, role) ==
  countSiblingsFrom(lines, startIdx, indentLevel(lines[startIdx]), role)

RECURSIVE findGroupEndFrom(_, _, _)
findGroupEndFrom(lines, i, indent) ==
  IF i > Len(lines) \/ indentLevel(lines[i]) < indent THEN i
  ELSE findGroupEndFrom(lines, i + 1, indent)

\* index of the first line after startIdx's sibling group
findSiblingGroupEnd(lines, startIdx, role) ==
  findGroupEndFrom(lines, startIdx, indentLevel(lines[startIdx]))

\* number of decimal digits of k
Digits(k) == IF k < 10 THEN 1 ELSE IF k < 100 THEN 2 ELSE 3

RECURSIVE SumDigits(_)
SumDigits(refs) == IF refs = <<>> THEN 0 ELSE 1 + Digits(Head(refs)) + SumDigits(Tail(refs))

\* the name '... and <remaining> more <role>s (<k> refs hidden: <first three>...)';
\* x holds remaining, the count of dropped references and the first three of them
SummaryName(remaining, role, droppedRefs) ==
  LET shown == Take(droppedRefs, 3)
      refNote == IF Len(droppedRefs) > 0
                 THEN 2 + Digits(Len(droppedRefs)) + 14 + SumDigits(shown) + (Len(shown) - 1) + 4
                 ELSE 0
  IN << [t |-> "summary",
         n |-> 8 + Digits(remaining) + 6 + Len(Spelling[role]) + 1 + refNote,
         r |-> role,
         x |-> << remaining, Len(droppedRefs) >> \o shown] >>

TRUNCATED_ROLES == {"listitem", "row", "article"}

\* listTracker.get(key).count, 0 for a key not yet seen
TrackerCount(listTracker, key) == IF key \in DOMAIN listTracker THEN listTracker[key] ELSE 0

\* a summary line indented by the level instead of by twice the level
SummaryIndentByLevel(indent) == indent

\* ' '.repeat(indent * 2): the leading blanks of the summary line
SummaryIndent(indent) == indent * 2

RECURSIVE smartTruncateLoop(_, _, _, _)
\* st = [result, listTracker]; listTracker maps <<indent, role>> to its count
smartTruncateLoop(lines, i, maxItems, st) ==
  IF i > Len(lines) THEN st
  ELSE
    LET line == lines[i]
        p == parseLine(line)
        indent == indentLevel(line)
        key == << indent, p.role >>
        count == TrackerCount(st.listTracker, key) + 1
        tracker == MapSet(st.listTracker, key, count)
    IN IF ~p.ok \/ p.role \notin TRUNCATED_ROLES
       THEN smartTruncateLoop(lines, i + 1, maxItems, [st EXCEPT !.result = Append(@, line)])
       ELSE IF count <= maxItems
       THEN smartTruncateLoop(lines, i + 1, maxItems,
              [result |-> Append(st.result, line), listTracker |-> tracker])
       ELSE IF count = maxItems + 1
       THEN LET remaining == countSiblings(lines, i, p.role)
                skippedEnd == findSiblingGroupEnd(lines, i, p.role)
                droppedRefs == collectRefs(SubSeq(lines, i, skippedEnd - 1))
            IN smartTruncateLoop(lines, getSubtreeEnd(lines, i), maxItems,
                 [result |-> Append(st.result,
                                Line(SummaryIndent(indent), "text", TRUE,
                                     SummaryName(remaining, p.role, droppedRefs), <<>>)),
                  listTracker |-> tracker])
       ELSE smartTruncateLoop(lines, getSubtreeEnd(lines, i), maxItems,
              [result |-> st.result, listTracker |-> tracker])

smartTruncate(snapshot, maxItems) ==
  Join(smartTruncateLoop(Split(snapshot), 1, maxItems,
                         [result |-> <<>>, listTracker |-> << >>]).result)

RECURSIVE HasRefBelow(_, _, _, _)
\* some line of the subtree below a line of the given indent carries a reference of S
HasRefBelow(lines, j, indent, S) ==
  IF j > Len(lines) \/ indentLevel(lines[j]) <= indent THEN FALSE
  ELSE IF REF_PATTERN(lines[j]) \in S THEN TRUE
  ELSE HasRefBelow(lines, j + 1, indent, S)

\* every reference number: the set against which 'has a reference' is tested
AnyRef(lines) == Range(collectRefs(lines))

\* visibleRefs is [given, refs]; given = FALSE is an absent (undefined) option
viewportOnly(snapshot, visibleRefs) ==
  IF ~visibleRefs.given \/ visibleRefs.refs = {} THEN snapshot
  ELSE
    LET lines == Split(snapshot)
        Keep(i) == IF REF_PATTERN(lines[i]) # 0
                   THEN REF_PATTERN(lines[i]) \in visibleRefs.refs
                   ELSE HasRefBelow(lines, i + 1, indentLevel(lines[i]), visibleRefs.refs)
        idx == SelectSeq([i \in DOMAIN lines |-> i], Keep)
    IN Join([k \in DOMAIN idx |-> lines[idx[k]]])

interactiveOnly(snapshot) ==
  LET lines == Split(snapshot)
      Keep(i) == IF REF_PATTERN(lines[i]) # 0 THEN TRUE
                 ELSE /\ parseLine(lines[i]).ok
                      /\ HasRefBelow(lines, i + 1, indentLevel(lines[i]), AnyRef(lines))
      idx == SelectSeq([i \in DOMAIN lines |-> i], Keep)
  IN Join([k \in DOMAIN idx |-> lines[idx[k]]])

IsBlank(line) == line.role = "" /\ line.sp = 0

RECURSIVE SqueezeBlanks(_, _)
\* .replace(/\n{3,}/g, '\n\n'): of a run of blank lines one is left
SqueezeBlanks(lines, i) ==
  IF i > Len(lines) THEN <<>>
  ELSE IF IsBlank(lines[i]) /\ i > 1 /\ IsBlank(lines[i - 1]) THEN SqueezeBlanks(lines, i + 1)
  ELSE << lines[i] >> \o SqueezeBlanks(lines, i + 1)

RECURSIVE DropBlanksLeft(_)
DropBlanksLeft(lines) ==
  IF lines # <<>> /\ IsBlank(Head(lines)) THEN DropBlanksLeft(Tail(lines)) ELSE lines

RECURSIVE DropBlanksRight(_)
DropBlanksRight(lines) ==
  IF lines # <<>> /\ IsBlank(lines[Len(lines)])
  THEN DropBlanksRight(SubSeq(lines, 1, Len(lines) - 1)) ELSE lines

\* String.prototype.trim on an outline: blank lines at both ends go, and so does
\* the indentation of the first line left
TrimOutline(lines) ==
  LET t == DropBlanksRight(DropBlanksLeft(lines))
  IN IF t = <<>> THEN <<>> ELSE << [t[1] EXCEPT !.sp = 0] >> \o Tail(t)

\* options = [maxItems, maxNameLength, visibleRefs, interactiveOnly]
DEFAULT_MAX_ITEMS == 5
DEFAULT_MAX_NAME_LENGTH == 120
NoVisibleRefs == [given |-> FALSE, refs |-> {}]

Options(maxItems) ==
  [maxItems |-> maxItems, maxNameLength |-> DEFAULT_MAX_NAME_LENGTH,
   visibleRefs |-> NoVisibleRefs, interactiveOnly |-> FALSE]

DefaultOptions == Options(DEFAULT_MAX_ITEMS)

optimizeAll(snapshot, options) ==
  LET r1 == stripChrome(snapshot)
      r2 == pruneAttributes(r1)
      r3 == removeNoise(r2)
      r4 == dedupLinks(r3)
      r5 == collapseRedundantChildren(r4)
      r6 == semanticCompress(r5)
      r7 == truncateLongNames(r6, options.maxNameLength)
      r8 == smartTruncate(r7, options.maxItems)
      r9 == IF options.visibleRefs.given THEN viewportOnly(r8, options.visibleRefs) ELSE r8
      r10 == IF options.interactiveOnly THEN interactiveOnly(r9) ELSE r9
  IN TrimOutline(SqueezeBlanks(Split(r10), 1))


\* the role alternation of ELEMENT_RE, in the order written
ELEMENT_RE_ROLES ==
  << "button", "link", "textbox", "checkbox", "radio", "combobox",
     "listbox", "menuitem", "menuitemcheckbox", "menuitemradio", "option", "searchbox",
     "slider", "spinbutton", "switch", "tab", "treeitem", "heading",
     "cell", "gridcell", "columnheader", "rowheader", "listitem", "article",
     "region", "main", "navigation", "dialog", "document", "group",
     "list", "table", "row", "generic", "text", "strong",
     "emphasis", "mark" >>

(***************************************************************************)
(* Differ (snapshot-differ.js).                                            *)
(***************************************************************************)
IsPrefix(a, b) == Len(a) <= Len(b) /\ SubSeq(b, 1, Len(a)) = a

\* the alternative of ELEMENT_RE's role group that matches at the role of a line:
\* the first one, in the order written, that the role starts with (0: none)
MatchedAlternative(role) ==
  IF ~IsWord(role) THEN 0
  ELSE LET hits == { i \in DOMAIN ELEMENT_RE_ROLES :
                       IsPrefix(Spelling[ELEMENT_RE_ROLES[i]], Spelling[role]) }
       IN IF hits = {} THEN 0 ELSE CHOOSE i \in hits : \A j \in hits : i <= j

NoElement == [ok |-> FALSE, role |-> "", name |-> <<>>, ref |-> 0]

\* line.match(ELEMENT_RE): role, name ('' when absent) and ref (0 when absent).
\* When the matched alternative is only a prefix of the role word, the quoted name
\* and the reference do not follow it and both optional groups stay empty.
ELEMENT_RE(line) ==
  LET a == MatchedAlternative(line.role)
  IN IF a = 0 THEN NoElement
     ELSE IF ELEMENT_RE_ROLES[a] # line.role
          THEN [ok |-> TRUE, role |-> ELEMENT_RE_ROLES[a], name |-> <<>>, ref |-> 0]
          ELSE [ok |-> TRUE, role |-> line.role,
                name |-> IF line.q THEN line.name ELSE <<>>,
                ref |-> IF line.rest # <<>> /\ line.rest[1].k = "ref"
                        THEN line.rest[1].n ELSE 0]

Element(role, name, ref) == [role |-> role, name |-> name, ref |-> ref]

parseElements(snapshot) ==
  IF snapshot = <<>> THEN <<>>
  ELSE LET lines == Split(snapshot)
           hit == SelectSeq(lines, LAMBDA line : ELEMENT_RE(line).ok)
       IN [i \in DOMAIN hit |->
             Element(ELEMENT_RE(hit[i]).role, ELEMENT_RE(hit[i]).name, ELEMENT_RE(hit[i]).ref)]

\* ctx.title of extractContext: the name of the first heading line with a non-empty
\* quoted name; <<>> when there is none
extractContext(snapshot) ==
  LET lines == Split(snapshot)
      hs == SelectSeq(lines, LAMBDA l : l.role = "heading" /\ l.q /\ l.name # <<>>)
  IN IF hs = <<>> THEN <<>> ELSE hs[1].name

\* prevByRef.has / .get: the last element carrying the reference
ByRefHas(els, ref) == \E i \in DOMAIN els : els[i].ref = ref
ByRefGet(els, ref) ==
  els[CHOOSE i \in DOMAIN els :
        els[i].ref = ref /\ \A j \in DOMAIN els : els[j].ref = ref => j <= i]

\* prevByRoleName.has / .get: the first element with the role and the name
ByRoleNameHas(els, role, name) ==
  \E i \in DOMAIN els : els[i].role = role /\ els[i].name = name
ByRoleNameGet(els, role, name) ==
  els[CHOOSE i \in DOMAIN els :
        /\ els[i].role = role /\ els[i].name = name
        /\ \A j \in DOMAIN els : (els[j].role = role /\ els[j].name = name) => i <= j]

RefKey(ref) == << "ref", ref >>
RoleNameKey(role, name) == << "rn", role, name >>

\* a classification that matches by reference only
MatchOneByRefOnly(el, prev) ==
  IF el.ref # 0 /\ ByRefHas(prev, el.ref)
  THEN [kind |-> IF el.name # ByRefGet(prev, el.ref).name THEN "changed" ELSE "unchanged",
        key |-> RefKey(el.ref), prev |-> ByRefGet(prev, el.ref)]
  ELSE [kind |-> "added", key |-> <<>>, prev |-> el]

\* the classification of one current element against the previous outline:
\* [kind, key, prev] with kind one of "added", "changed", "unchanged"
MatchOne(el, prev) ==
  LET byRef == el.ref # 0 /\ ByRefHas(prev, el.ref)
      byRn == ~byRef /\ ByRoleNameHas(prev, el.role, el.name)
      prevEl == IF byRef THEN ByRefGet(prev, el.ref)
                ELSE ByRoleNameGet(prev, el.role, el.name)
  IN IF ~byRef /\ ~byRn THEN [kind |-> "added", key |-> <<>>, prev |-> el]
     ELSE [kind |-> IF el.ref # 0 /\ prevEl.ref = el.ref /\ el.name # prevEl.name
                    THEN "changed" ELSE "unchanged",
           key |-> IF byRef THEN RefKey(el.ref) ELSE RoleNameKey(el.role, el.name),
           prev |-> prevEl]

\* a test that looks for the reference key only
PrevMatchedByRefOnly(el, matchedPrevKeys) ==
  el.ref # 0 /\ RefKey(el.ref) \in matchedPrevKeys

\* a previous element is matched when one of its keys was recorded
PrevMatched(el, matchedPrevKeys) ==
  \/ (el.ref # 0 /\ RefKey(el.ref) \in matchedPrevKeys)
  \/ RoleNameKey(el.role, el.name) \in matchedPrevKeys

NOISE_ROLES ==
  { "generic", "group", "list", "table", "row", "document", "text", "strong",
    "emphasis", "mark" }

\* a noise filter that also discards buttons
filterNoiseAndButtons(el) == el.role \notin NOISE_ROLES \cup {"button"}

filterNoise(el) == el.role \notin NOISE_ROLES

\* a ratio of 0 when the current outline has no parsed element
DiffRatioZeroWhenNone(changedElements, totalElements) ==
  IF totalElements > 0 THEN [num |-> changedElements, den |-> totalElements]
  ELSE [num |-> 0, den |-> 1]

\* diffRatio as the fraction [num, den] the division computes; 1 when there is nothing
DiffRatio(changedElements, totalElements) ==
  IF totalElements > 0 THEN [num |-> changedElements, den |-> totalElements]
  ELSE [num |-> 1, den |-> 1]

\* diffRatio > 0.4
IsLargeLowThreshold(ratio) == 10 * ratio.num > 4 * ratio.den

\* diffRatio > 0.7
IsLarge(ratio) == 10 * ratio.num > 7 * ratio.den

\* the first loop of computeDiff: the classification of every current element
Classify(prev, curr) == [i \in DOMAIN curr |-> MatchOne(curr[i], prev)]

\* matchedPrevKeys after the first loop
MatchedPrevKeys(m) == { m[i].key : i \in { j \in DOMAIN m : m[j].kind # "added" } }

\* the positions of the current elements classified as kind, in order
KindIdx(m, kind) == SelectSeq([i \in DOMAIN m |-> i], LAMBDA i : m[i].kind = kind)

\* the lines of the diff text
DiffLines(added, removed, changed, unchanged, title, prevUrl, currUrl) ==
  << [k |-> "URL", url |-> currUrl] >>
  \o (IF prevUrl # "" /\ currUrl # prevUrl
      THEN << [k |-> "CHANGED from", url |-> prevUrl] >> ELSE <<>>)
  \o (IF title # <<>> THEN << [k |-> "Title", name |-> title] >> ELSE <<>>)
  \o << [k |-> ""] >>
  \o [i \in DOMAIN added |-> [k |-> "+", el |-> added[i]]]
  \o [i \in DOMAIN removed |-> [k |-> "-", el |-> removed[i]]]
  \o [i \in DOMAIN changed |-> [k |-> "~", el |-> changed[i].curr, old |-> changed[i].prev.name]]
  \o (IF unchanged > 0 THEN << [k |-> "=", n |-> unchanged] >> ELSE <<>>)

\* the value computeDiff returns, from the filtered lists and the counts
DiffResult(lines, added, removed, changed, unchanged, totalElements, changedElements) ==
  [diff |-> lines,
   stats |-> [added |-> added, removed |-> removed, changed |-> changed,
              unchanged |-> unchanged, total |-> totalElements,
              diffRatio |-> DiffRatio(changedElements, totalElements)],
   isLargeDiff |-> IsLarge(DiffRatio(changedElements, totalElements)),
   isEmpty |-> changedElements = 0]

\* computeDiff after the two loops and the noise filter
DiffOf(filteredAdded, filteredRemoved, changed, unchanged, totalElements, title, prevUrl, currUrl) ==
  DiffResult(DiffLines(filteredAdded, filteredRemoved, changed, unchanged, title,
                       prevUrl, currUrl),
             Len(filteredAdded), Len(filteredRemoved), Len(changed), unchanged,
             totalElements, Len(filteredAdded) + Len(filteredRemoved) + Len(changed))

\* computeDiff on the parsed elements and their classification m
DiffOfElements(prev, curr, m, title, prevUrl, currUrl) ==
  DiffOf(SelectSeq([k \in DOMAIN KindIdx(m, "added") |-> curr[KindIdx(m, "added")[k]]],
                   filterNoise),
         SelectSeq(SelectSeq(prev, LAMBDA el : ~PrevMatched(el, MatchedPrevKeys(m))),
                   filterNoise),
         [k \in DOMAIN KindIdx(m, "changed") |->
            [curr |-> curr[KindIdx(m, "changed")[k]],
             prev |-> m[KindIdx(m, "changed")[k]].prev]],
         Len(KindIdx(m, "unchanged")), Len(curr), title, prevUrl, currUrl)

DiffOfParsed(prev, curr, title, prevUrl, currUrl) ==
  DiffOfElements(prev, curr, Classify(prev, curr), title, prevUrl, currUrl)

computeDiff(prevSnapshot, currSnapshot, prevUrl, currUrl) ==
  DiffOfParsed(parseElements(prevSnapshot), parseElements(currSnapshot),
               extractContext(currSnapshot), prevUrl, currUrl)


(***************************************************************************)
(* Text built by template strings.  A text is a sequence of parts          *)
(* [s, n, o]: a literal s, or a hole of kind s filled with the number n or *)
(* the sequence o; len is the number of characters the part holds.         *)
(***************************************************************************)
Part(s, n, o, len) == [s |-> s, n |-> n, o |-> o, len |-> len]
Lit(s, len) == << Part(s, 0, <<>>, len) >>
RefText(ref) == << Part("e<n>", ref, <<>>, 1 + Digits(ref)) >>
StrText(str) == IF str = "" THEN <<>> ELSE << Part(str, 0, <<>>, 8) >>

\* String.prototype.startsWith
StartsWith(text, prefix) == IsPrefix(prefix, text)

RECURSIVE SliceText(_, _)
\* String.prototype.slice(0, k) on a text
SliceText(text, k) ==
  IF text = <<>> \/ k = 0 THEN <<>>
  ELSE IF Head(text).len <= k THEN << Head(text) >> \o SliceText(Tail(text), k - Head(text).len)
  ELSE << [Head(text) EXCEPT !.len = k] >>

(***************************************************************************)
(* The pages the browser can show: accessibility trees with their URLs.    *)
(* PageSucc gives the pages an input action can lead to.                   *)
(***************************************************************************)
HomeNodes ==
  << AXNode(1, 0, "RootWebArea", <<>>, 1),
     AXNode(2, 1, "banner", <<>>, 2),
     AXNode(3, 2, "link", Nm("Home"), 3),
     AXNode(4, 2, "heading", Nm("Title"), 4),
     AXNode(5, 1, "main", <<>>, 5),
     AXNode(6, 5, "button", Nm("Go"), 0),
     AXNode(7, 5, "link", Nm("News"), 7) >>

ThreeNodes ==
  << AXNode(1, 0, "RootWebArea", <<>>, 20),
     AXNode(2, 1, "heading", Nm("Title"), 24),
     AXNode(3, 1, "button", Nm("Delete"), 21),
     AXNode(4, 1, "button", Nm("Delete"), 22),
     AXNode(5, 1, "button", Nm("Delete"), 23) >>

TwoNodes ==
  << AXNode(1, 0, "RootWebArea", <<>>, 20),
     AXNode(2, 1, "heading", Nm("Title"), 24),
     AXNode(4, 1, "button", Nm("Delete"), 22),
     AXNode(5, 1, "button", Nm("Delete"), 23) >>

NewsNodes ==
  << AXNode(1, 0, "RootWebArea", <<>>, 30),
     AXNode(2, 1, "heading", Nm("News"), 31),
     AXNode(3, 1, "textbox", <<>>, 32),
     AXNode(4, 1, "button", Nm("Save"), 33) >>

Pages ==
  << [url |-> "http://a.test/", nodes |-> HomeNodes],
     [url |-> "http://a.test/items", nodes |-> ThreeNodes],
     [url |-> "http://a.test/items", nodes |-> TwoNodes],
     [url |-> "http://a.test/news", nodes |-> NewsNodes],
     [url |-> "about:blank", nodes |-> <<>>] >>

PageSucc ==
  << {1, 4}, {2, 3}, {3}, {4, 5}, {5} >>

\* the page a navigation to url loads; the current one when no page has that URL
PageAt(url, current) ==
  IF \E i \in DOMAIN Pages : Pages[i].url = url
  THEN CHOOSE i \in DOMAIN Pages :
         Pages[i].url = url /\ \A j \in DOMAIN Pages : Pages[j].url = url => i <= j
  ELSE current

(***************************************************************************)
(* Browser (the class of browser.js).                                      *)
(***************************************************************************)
SNAPSHOT_MAX_ITEMS == 15

\* getSnapshot on a page: the optimized outline returned and the handle map stored
getSnapshot(nodes) ==
  LET built == axTreeToSnapshot(nodes)
  IN [optimized |-> optimizeAll(built.snapshot, Options(SNAPSHOT_MAX_ITEMS)),
      refMap |-> built.refMap]

RECURSIVE SortedKeys(_)
\* [...map.keys()] of a handle map: references in insertion (ascending) order
SortedKeys(S) ==
  IF S = {} THEN <<>>
  ELSE LET m == CHOOSE k \in S : \A j \in S : k <= j
       IN << m >> \o SortedKeys(S \ {m})

RECURSIVE JoinRefs(_)
\* refs.join(', ')
JoinRefs(refs) ==
  IF refs = <<>> THEN <<>>
  ELSE IF Len(refs) = 1 THEN RefText(refs[1])
  ELSE RefText(refs[1]) \o Lit(", ", 2) \o JoinRefs(Tail(refs))

\* the message of the Error a reference-addressed action throws for an unknown ref
UnknownRefMessage(method, refMap, ref) ==
  Lit("Unknown ref: ", 13) \o RefText(ref)
  \o (IF method = "clickRef"
      THEN Lit(". Available refs: ", 18) \o JoinRefs(Take(SortedKeys(DOMAIN refMap), 10))
           \o Lit("...", 3)
      ELSE <<>>)

\* this._refMap.get(ref), falsy when the reference is not a key
Resolves(refMap, ref) == ref \in DOMAIN refMap /\ refMap[ref] # 0

Outcome(throws, text, method) == [throws |-> throws, text |-> text, method |-> method]

\* the browser method a tool name is dispatched to ("" for none)
ToolMethod(name) ==
  CASE name = "navigate" -> "navigate"
    [] name = "click" -> "clickRef"
    [] name = "fill" -> "fillRef"
    [] name = "hover" -> "hover"
    [] name = "select_option" -> "selectOption"
    [] name = "press_key" -> "pressKey"
    [] name = "scroll" -> "scroll"
    [] name = "screenshot" -> "screenshot"
    [] name = "extract_text" -> "extractText"
    [] OTHER -> ""

REF_TOOLS == {"click", "fill", "hover", "select_option"}

EXTRACT_LIMIT == 8000

\* executeBrowserTool: what the tool returns or throws.  fault says that the
\* browser transport rejects a command of this call; pageText is the length of
\* document.body.innerText
executeBrowserTool(refMap, name, args, fault, pageText) ==
  LET method == ToolMethod(name)
  IN IF name \in REF_TOOLS /\ ~Resolves(refMap, args.ref)
     THEN Outcome(TRUE, UnknownRefMessage(method, refMap, args.ref), method)
     ELSE IF method # "" /\ fault
     THEN Outcome(TRUE, Lit("Protocol error", 14), method)
     ELSE CASE name = "navigate" ->
                 Outcome(FALSE, Lit("Navigated to ", 13) \o StrText(args.url), method)
            [] name = "click" ->
                 Outcome(FALSE, Lit("Clicked at (x, y)", 17), method)
            [] name = "fill" ->
                 Outcome(FALSE, Lit("Filled ref=", 11) \o RefText(args.ref)
                                \o Lit(" with ", 6) \o StrText(args.text), method)
            [] name = "hover" ->
                 Outcome(FALSE, Lit("Hovered over ref=", 17) \o RefText(args.ref), method)
            [] name = "select_option" ->
                 Outcome(FALSE, Lit("Selected ", 9) \o StrText(args.value)
                                \o Lit(" in ref=", 8) \o RefText(args.ref), method)
            [] name = "press_key" ->
                 Outcome(FALSE, Lit("Pressed: ", 9) \o StrText(args.key), method)
            [] name = "scroll" -> Outcome(FALSE, Lit("Scrolled", 8), method)
            [] name = "screenshot" ->
                 Outcome(FALSE, Lit("Screenshot captured (NKB base64 PNG)", 36), method)
            [] name = "extract_text" ->
                 Outcome(FALSE,
                         SliceText(<< Part("innerText", 0, <<>>, pageText) >>, EXTRACT_LIMIT),
                         method)
            [] OTHER -> Outcome(FALSE, Lit("Unknown action: ", 16) \o StrText(name), method)

\* the protocol commands a reference-addressed method sends and the events it
\* emits, in order, when every command is answered (and the box model is known):
\* nothing at all for a reference that does not resolve
RefActionTrace(method, resolved) ==
  IF ~resolved THEN <<>>
  ELSE CASE method = "clickRef" ->
              << "DOM.resolveNode", "DOM.getBoxModel", "Runtime.callFunctionOn",
                 "DOM.getBoxModel", "emit action", "Input.dispatchMouseEvent",
                 "Input.dispatchMouseEvent" >>
         [] method = "fillRef" ->
              << "DOM.resolveNode", "Runtime.callFunctionOn", "Input.dispatchKeyEvent",
                 "emit action" >>
         [] method = "hover" ->
              << "DOM.resolveNode", "Runtime.callFunctionOn", "Input.dispatchMouseEvent",
                 "emit action" >>
         [] method = "selectOption" ->
              << "DOM.resolveNode", "Runtime.callFunctionOn", "emit action" >>

\* the tools whose input events can move the browser to another page
INPUT_TOOLS == {"click", "fill", "select_option", "press_key"}

\* the pages the browser can show after the tool ran
PagesAfter(page, name, args, threw) ==
  IF threw THEN {page}
  ELSE IF name = "navigate" THEN {PageAt(args.url, page)}
  ELSE IF name \in INPUT_TOOLS THEN PageSucc[page]
  ELSE {page}


(***************************************************************************)
(* Agent loop (browseWeb).                                                 *)
(***************************************************************************)
MAX_STEPS == 25

\* opts.maxSteps of the modelled runs
maxSteps == 2

\* how many tool calls of one run may meet a transport failure
MaxFaults == 1

NoArgs ==
  [ref |-> 0, text |-> "", url |-> "", value |-> "", key |-> "", direction |-> "",
   result |-> ""]

\* a tool call of a completion; id 0 is a call without an id
Call(id, name, arguments) == [id |-> id, name |-> name, arguments |-> arguments]

Completion(content, toolCalls, hasUsage) ==
  [content |-> content, toolCalls |-> toolCalls,
   usage |-> [given |-> hasUsage, input |-> 10, output |-> 2]]

\* the completions the chat function may return
Completions ==
  { Completion("The answer", <<>>, FALSE),
    Completion("", <<>>, TRUE),
    Completion("", << Call(1, "done", [NoArgs EXCEPT !.result = "found"]) >>, TRUE),
    Completion("", << Call(1, "click", [NoArgs EXCEPT !.ref = 2]) >>, TRUE),
    Completion("", << Call(0, "click", [NoArgs EXCEPT !.ref = 99]) >>, TRUE),
    Completion("thinking", << Call(0, "click", [NoArgs EXCEPT !.ref = 1]),
                              Call(0, "hover", [NoArgs EXCEPT !.ref = 3]) >>, TRUE),
    Completion("", << Call(1, "press_key", [NoArgs EXCEPT !.key = "Enter"]),
                      Call(2, "done", [NoArgs EXCEPT !.result = "pressed"]),
                      Call(3, "scroll", [NoArgs EXCEPT !.direction = "down"]) >>, TRUE),
    Completion("", << Call(1, "navigate", [NoArgs EXCEPT !.url = "http://a.test/news"]) >>,
               FALSE),
    Completion("", << Call(1, "fill", [NoArgs EXCEPT !.ref = 2, !.text = "hi"]) >>, TRUE),
    Completion("", << Call(1, "select_option", [NoArgs EXCEPT !.ref = 1, !.value = "x"]) >>,
               TRUE),
    Completion("", << Call(1, "extract_text", NoArgs) >>, TRUE),
    Completion("", << Call(1, "screenshot", NoArgs) >>, TRUE),
    Completion("", << Call(1, "zoom", NoArgs) >>, TRUE) }

\* the pages the start URL may name
StartPages == {1, 2}

\* the lengths document.body.innerText may have
PageTexts == {9000}

RESULT_LIMIT == 200

VARIABLES
  pc,            \* where browseWeb stands
  browser,       \* whether `let browser` holds a Browser
  diff,          \* what computeDiff returned last
  page,          \* the page the browser shows (an index of Pages)
  refMap,        \* browser._refMap
  closed,        \* how many times browser.close() was called
  ops,           \* the browser methods called, in order
  snapshot, currentUrl, prevSnapshot, prevUrl,
  messages, steps, modelCalls, inputTokens, outputTokens,
  step,          \* the loop counter
  toolCalls,     \* the tool calls of the current completion not yet handled
  response,      \* the content of the current completion
  result,        \* the result of the tool call being handled
  faults,        \* transport failures met so far
  err,           \* the error caught by browseWeb's catch clause
  ret,           \* what browseWeb returned or threw
  shown          \* for each reference last shown to the model on an element,
                 \* the handle it stood for then (0: none)

vars ==
  << pc, browser, diff, page, refMap, closed, ops, snapshot, currentUrl, prevSnapshot, prevUrl,
     messages, steps, modelCalls, inputTokens, outputTokens, step, toolCalls,
     response, result, faults, err, ret, shown >>

\* no diff was computed yet
NoDiff == [diff |-> <<>>, stats |-> <<>>, isLargeDiff |-> FALSE, isEmpty |-> FALSE]

NoRet == [kind |-> "none", result |-> <<>>, usage |-> <<>>, steps |-> <<>>, error |-> ""]

Init ==
  /\ pc = "start"
  /\ browser = FALSE
  /\ diff = NoDiff
  /\ page = 5
  /\ refMap = EmptyMap
  /\ closed = 0
  /\ ops = <<>>
  /\ snapshot = <<>> /\ currentUrl = "" /\ prevSnapshot = <<>> /\ prevUrl = ""
  /\ messages = <<>> /\ steps = <<>>
  /\ modelCalls = 0 /\ inputTokens = 0 /\ outputTokens = 0
  /\ step = 0
  /\ toolCalls = <<>> /\ response = "" /\ result = <<>>
  /\ faults = 0
  /\ err = ""
  /\ ret = NoRet
  /\ shown = EmptyMap

Message(role, content, tool_calls, tool_call_id) ==
  [role |-> role, content |-> content, tool_calls |-> tool_calls,
   tool_call_id |-> tool_call_id]

NoId == [pfx |-> "", n |-> 0]

\* call.id || `call_${step}`
CallId(call, stepNo) ==
  IF call.id # 0 THEN [pfx |-> "id", n |-> call.id] ELSE [pfx |-> "call_", n |-> stepNo]

OutlinePart(outline) == << Part("outline", 0, outline, Len(outline)) >>
DiffPart(d) == << Part("diff", 0, d, Len(d)) >>

InitialMessages(url, outline) ==
  << Message("system", Lit("You are a browser automation agent... Your task: ", 50)
                       \o Lit("task", 4), <<>>, NoId),
     Message("user", Lit("URL: ", 5) \o StrText(url) \o Lit("\n\nPage snapshot:\n", 17)
                     \o OutlinePart(outline), <<>>, NoId) >>

\* the observation without the tool's result
ObservationWithoutResult(res, d, url, outline) ==
  IF d.isEmpty THEN Lit("\nNo visible changes on the page.", 32)
  ELSE IF d.isLargeDiff
  THEN Lit("\nURL: ", 6) \o StrText(url) \o Lit("\n\nNew page snapshot:\n", 21)
       \o OutlinePart(outline)
  ELSE Lit("\n\nChanges:\n", 11) \o DiffPart(d.diff)

\* a choice of the observation that tests isLargeDiff first
ObservationFormLargeFirst(d) ==
  IF d.isLargeDiff THEN "snapshot" ELSE IF d.isEmpty THEN "none" ELSE "changes"

\* if (diff.isEmpty) ... else if (diff.isLargeDiff) ... else ...
ObservationForm(d) ==
  IF d.isEmpty THEN "none" ELSE IF d.isLargeDiff THEN "snapshot" ELSE "changes"

\* the observation built from the tool's result and the diff
Observation(res, d, url, outline) ==
  CASE ObservationForm(d) = "none" ->
         Lit("Action: ", 8) \o res \o Lit("\nNo visible changes on the page.", 32)
    [] ObservationForm(d) = "snapshot" ->
         Lit("Action: ", 8) \o res \o Lit("\nURL: ", 6) \o StrText(url)
         \o Lit("\n\nNew page snapshot:\n", 21) \o OutlinePart(outline)
    [] OTHER -> Lit("Action: ", 8) \o res \o Lit("\n\nChanges:\n", 11) \o DiffPart(d.diff)

\* result of a tool call: what the tool returned, or `Error: ${err.message}`
ToolResult(out) == IF out.throws THEN Lit("Error: ", 7) \o out.text ELSE out.text

FirstNonEmpty(a, b, c) == IF a # "" THEN a ELSE IF b # "" THEN b ELSE c

StepEntry(stepNo, call, res) ==
  [step |-> stepNo + 1,
   action |-> call.name,
   ref |-> call.arguments.ref,
   text |-> FirstNonEmpty(call.arguments.text, call.arguments.url, call.arguments.value),
   result |-> SliceText(res, RESULT_LIMIT)]

Usage == [inputTokens |-> inputTokens, outputTokens |-> outputTokens, modelCalls |-> modelCalls]

Returned(res, usage) ==
  [kind |-> "return", result |-> res, usage |-> usage, steps |-> steps, error |-> ""]

\* the handle each reference of the new handle map stands for (0: no handle)
Label(map, ref) == IF ref \in DOMAIN map THEN map[ref] ELSE 0

\* what the model has been shown once a full outline is sent
ShownByOutline(outline, map) ==
  [r \in Range(collectRefs(outline)) |-> Label(map, r)]

\* what the model has been shown once a diff is sent: added and changed elements
\* are shown with their references, removed ones are withdrawn
ShownByDiff(old, d, map) ==
  LET plus == { d[i].el.ref : i \in { j \in DOMAIN d : d[j].k \in {"+", "~"} } } \ {0}
      minus == { d[i].el.ref : i \in { j \in DOMAIN d : d[j].k = "-" } } \ {0}
  IN [r \in (DOMAIN old \ minus) \cup plus |-> IF r \in plus THEN Label(map, r) ELSE old[r]]

ShownAfter(old, d, outline, map) ==
  IF d.isEmpty THEN old
  ELSE IF d.isLargeDiff THEN ShownByOutline(outline, map)
  ELSE ShownByDiff(old, d.diff, map)

Thrown(error) ==
  [kind |-> "throw", result |-> <<>>, usage |-> <<>>, steps |-> <<>>, error |-> error]

\* the variables of the conversation, untouched outside the loop body
convVars ==
  << messages, steps, modelCalls, inputTokens, outputTokens, step, toolCalls,
     response, result, shown >>
pageVars == << snapshot, currentUrl, prevSnapshot, prevUrl >>

\* typeof chat !== 'function': browseWeb throws before a Browser exists
RejectOptions ==
  /\ pc = "start"
  /\ pc' = "thrown"
  /\ ret' = Thrown("opts.chat is required")
  /\ UNCHANGED << browser, diff, page, refMap, closed, ops, faults, err >>
  /\ UNCHANGED convVars /\ UNCHANGED pageVars

\* new Browser(...)
Construct ==
  /\ pc = "start"
  /\ pc' = "launch"
  /\ browser' = TRUE
  /\ refMap' = EmptyMap
  /\ UNCHANGED << diff, page, closed, ops, faults, err, ret >>
  /\ UNCHANGED convVars /\ UNCHANGED pageVars

\* a catch clause that re-raises without closing
CatchWithoutClose(opsNow, error) ==
  /\ pc' = "thrown"
  /\ err' = error
  /\ closed' = closed
  /\ ops' = opsNow
  /\ ret' = Thrown(error)

\* an awaited call rejects with error after the browser operations opsNow:
\* catch (err) { if (browser) await browser.close(); throw err; }
Catch(opsNow, error) ==
  /\ pc' = "thrown"
  /\ err' = error
  /\ closed' = IF browser THEN closed + 1 ELSE closed
  /\ ops' = IF browser THEN Append(opsNow, "close") ELSE opsNow
  /\ ret' = Thrown(error)

\* await browser.launch()
Launch ==
  /\ pc = "launch"
  /\ \/ pc' = "navigate" /\ ops' = Append(ops, "launch") /\ err' = err
        /\ UNCHANGED << closed, ret >>
     \/ Catch(Append(ops, "launch"), "Chrome not found")
  /\ UNCHANGED << browser, diff, page, refMap, faults >>
  /\ UNCHANGED convVars /\ UNCHANGED pageVars

\* await browser.navigate(url)
Navigate ==
  /\ pc = "navigate"
  /\ \/ /\ pc' = "snapshot" /\ ops' = Append(ops, "navigate") /\ err' = err
        /\ \E p \in StartPages : page' = p
        /\ UNCHANGED << closed, ret >>
     \/ Catch(Append(ops, "navigate"), "Protocol error") /\ page' = page
  /\ UNCHANGED << browser, diff, refMap, faults >>
  /\ UNCHANGED convVars /\ UNCHANGED pageVars

\* the outcomes of an awaited getSnapshot followed by getURL: both resolve, the
\* first rejects, or the second rejects after the handle map was replaced
SnapshotOutcomes == {"ok", "getSnapshot", "getURL"}

\* the first getSnapshot and getURL, and the two opening messages
InitialSnapshotGot(got, url, outcome) ==
  IF outcome = "ok"
  THEN /\ pc' = "chat" /\ err' = err
       /\ ops' = ops \o << "getSnapshot", "getURL" >>
       /\ refMap' = got.refMap
       /\ snapshot' = got.optimized
       /\ currentUrl' = url
       /\ messages' = InitialMessages(url, got.optimized)
       /\ shown' = ShownByOutline(got.optimized, got.refMap)
       /\ UNCHANGED << closed, ret >>
  ELSE /\ Catch(IF outcome = "getURL" THEN ops \o << "getSnapshot", "getURL" >>
                ELSE Append(ops, "getSnapshot"), "Protocol error")
       /\ refMap' = IF outcome = "getURL" THEN got.refMap ELSE refMap
       /\ UNCHANGED << snapshot, currentUrl, messages, shown >>

InitialSnapshot ==
  /\ pc = "snapshot"
  /\ \/ InitialSnapshotGot(getSnapshot(Pages[page].nodes), Pages[page].url, "getSnapshot")
     \/ \E outcome \in SnapshotOutcomes \ {"getSnapshot"} :
          InitialSnapshotGot(getSnapshot(Pages[page].nodes), Pages[page].url, outcome)
  /\ UNCHANGED << browser, diff, page, faults, prevSnapshot, prevUrl, steps, modelCalls,
                  inputTokens, outputTokens, step, toolCalls, response, result >>

\* browser.close() followed by the return of browseWeb
\* a return that leaves the browser open
ReturnWithoutClose(res) ==
  /\ pc' = "returned"
  /\ closed' = closed
  /\ ops' = ops
  /\ ret' = Returned(res, [inputTokens |-> inputTokens', outputTokens |-> outputTokens',
                           modelCalls |-> modelCalls'])

CloseAndReturn(res) ==
  /\ pc' = "returned"
  /\ closed' = closed + 1
  /\ ops' = Append(ops, "close")
  /\ ret' = Returned(res, [inputTokens |-> inputTokens', outputTokens |-> outputTokens',
                           modelCalls |-> modelCalls'])

\* a loop that runs one iteration more
LoopContinuesOneMore == step <= maxSteps

\* the condition of for (let step = 0; step < maxSteps; step++)
LoopContinues == step < maxSteps

\* await chat(...) answers with tool calls
ChatTools ==
  /\ pc = "chat" /\ LoopContinues
  /\ \E c \in Completions :
       /\ c.toolCalls # <<>>
       /\ inputTokens' = inputTokens + (IF c.usage.given THEN c.usage.input ELSE 0)
       /\ outputTokens' = outputTokens + (IF c.usage.given THEN c.usage.output ELSE 0)
       /\ modelCalls' = modelCalls + 1
       /\ toolCalls' = c.toolCalls
       /\ response' = c.content
  /\ pc' = "call"
  /\ UNCHANGED << browser, diff, page, refMap, closed, ops, faults, err, ret, messages, steps, step,
                  result, shown >>
  /\ UNCHANGED pageVars

\* await chat(...) answers without tool calls: close and return the content
ChatText ==
  /\ pc = "chat" /\ LoopContinues
  /\ \E c \in Completions :
       /\ c.toolCalls = <<>>
       /\ inputTokens' = inputTokens + (IF c.usage.given THEN c.usage.input ELSE 0)
       /\ outputTokens' = outputTokens + (IF c.usage.given THEN c.usage.output ELSE 0)
       /\ modelCalls' = modelCalls + 1
       /\ response' = c.content
       /\ CloseAndReturn(IF c.content # "" THEN StrText(c.content)
                         ELSE Lit("Browser task completed (no explicit result).", 44))
  /\ UNCHANGED << browser, diff, page, refMap, faults, err, messages, steps, step, toolCalls, result, shown >>
  /\ UNCHANGED pageVars

\* await chat(...) rejects
ChatThrows ==
  /\ pc = "chat" /\ LoopContinues
  /\ Catch(ops, "chat failed")
  /\ UNCHANGED << browser, diff, page, refMap, faults >>
  /\ UNCHANGED convVars /\ UNCHANGED pageVars

\* the for loop ends: close and return the step-limit message
StepLimit ==
  /\ pc = "chat" /\ ~LoopContinues
  /\ UNCHANGED << inputTokens, outputTokens, modelCalls >>
  /\ CloseAndReturn(Lit("Browser task hit step limit. Partial results may be available.", 62))
  /\ UNCHANGED << browser, diff, page, refMap, faults, err, messages, steps, step, toolCalls, response,
                  result, shown >>
  /\ UNCHANGED pageVars

\* done recorded as a step before the return
DoneRecordsStep ==
  /\ pc = "call" /\ Head(toolCalls).name = "done"
  /\ UNCHANGED << inputTokens, outputTokens, modelCalls >>
  /\ steps' = Append(steps, StepEntry(step, Head(toolCalls), <<>>))
  /\ pc' = "returned"
  /\ closed' = closed + 1
  /\ ops' = Append(ops, "close")
  /\ ret' = [kind |-> "return", result |-> StrText(Head(toolCalls).arguments.result),
             usage |-> Usage, steps |-> steps', error |-> ""]
  /\ UNCHANGED << browser, diff, page, refMap, faults, err, messages, step, toolCalls, response,
                  result, shown >>
  /\ UNCHANGED pageVars

\* call.name === 'done': close and return its result
Done ==
  /\ pc = "call" /\ Head(toolCalls).name = "done"
  /\ UNCHANGED << inputTokens, outputTokens, modelCalls >>
  /\ CloseAndReturn(StrText(Head(toolCalls).arguments.result))
  /\ UNCHANGED << browser, diff, page, refMap, faults, err, messages, steps, step, toolCalls, response,
                  result, shown >>
  /\ UNCHANGED pageVars

\* a tool call that records its step only when the tool returned
ToolEffectsSkipFailedStep(fault, pageText, p) ==
  LET call == Head(toolCalls)
      out == executeBrowserTool(refMap, call.name, call.arguments, fault, pageText)
  IN /\ p \in PagesAfter(page, call.name, call.arguments, out.throws)
     /\ page' = p
     /\ result' = ToolResult(out)
     /\ steps' = IF out.throws THEN steps
                 ELSE Append(steps, StepEntry(step, call, ToolResult(out)))
     /\ faults' = IF fault THEN faults + 1 ELSE faults

\* the state the tool call leaves: its result, the recorded step, the page shown
ToolEffects(fault, pageText, p) ==
  LET call == Head(toolCalls)
      out == executeBrowserTool(refMap, call.name, call.arguments, fault, pageText)
  IN /\ p \in PagesAfter(page, call.name, call.arguments, out.throws)
     /\ page' = p
     /\ result' = ToolResult(out)
     /\ steps' = Append(steps, StepEntry(step, call, ToolResult(out)))
     /\ faults' = IF fault THEN faults + 1 ELSE faults

\* the browser operations once the tool of the call was dispatched
ToolOps(call) ==
  IF ToolMethod(call.name) = "" THEN ops ELSE Append(ops, ToolMethod(call.name))

FaultChoices == IF faults < MaxFaults THEN BOOLEAN ELSE {FALSE}

\* one tool call up to the delay: executeBrowserTool inside its try/catch, the
\* step entry, onStep, and the copy of the current outline and URL
ExecTool ==
  /\ pc = "call" /\ Head(toolCalls).name # "done"
  /\ \E fault \in FaultChoices, pageText \in PageTexts, p \in DOMAIN Pages :
       ToolEffects(fault, pageText, p)
  /\ ops' = ToolOps(Head(toolCalls))
  /\ prevSnapshot' = snapshot
  /\ prevUrl' = currentUrl
  /\ pc' = "refresh"
  /\ UNCHANGED << browser, diff, refMap, closed, err, ret, snapshot, currentUrl, messages, modelCalls,
                  inputTokens, outputTokens, step, toolCalls, response, shown >>

\* the same, with an onStep callback that throws
ExecToolOnStepThrows ==
  /\ pc = "call" /\ Head(toolCalls).name # "done"
  /\ \E fault \in FaultChoices, pageText \in PageTexts, p \in DOMAIN Pages :
       ToolEffects(fault, pageText, p)
  /\ Catch(ToolOps(Head(toolCalls)), "onStep failed")
  /\ UNCHANGED << browser, diff, refMap, messages, modelCalls, inputTokens, outputTokens,
                  step, toolCalls, response, shown >>
  /\ UNCHANGED pageVars

\* the two messages of a handled call, the observation pushed first
CallMessagesToolFirst(call, id, observation) ==
  << Message("tool", observation, <<>>, id),
     Message("assistant", StrText(response),
             << [id |-> id, name |-> call.name, arguments |-> call.arguments] >>, NoId) >>

\* the two messages pushed for a handled call
CallMessages(call, id, observation) ==
  << Message("assistant", StrText(response),
             << [id |-> id, name |-> call.name, arguments |-> call.arguments] >>, NoId),
     Message("tool", observation, <<>>, id) >>

\* after the delay: getSnapshot, getURL, computeDiff, the observation and the two
\* messages; then the next call of the completion or the next step
RefreshDiff(got, url, d, outcome) ==
  IF outcome = "ok"
  THEN /\ err' = err
       /\ diff' = d
       /\ ops' = ops \o << "getSnapshot", "getURL" >>
       /\ refMap' = got.refMap
       /\ snapshot' = got.optimized
       /\ currentUrl' = url
       /\ messages' = messages \o CallMessages(Head(toolCalls), CallId(Head(toolCalls), step),
                                               Observation(result, d, url, got.optimized))
       /\ shown' = ShownAfter(shown, d, got.optimized, got.refMap)
       /\ toolCalls' = Tail(toolCalls)
       /\ IF Tail(toolCalls) = <<>>
          THEN pc' = "chat" /\ step' = step + 1
          ELSE pc' = "call" /\ step' = step
       /\ UNCHANGED << closed, ret >>
  ELSE /\ Catch(IF outcome = "getURL" THEN ops \o << "getSnapshot", "getURL" >>
                ELSE Append(ops, "getSnapshot"), "Protocol error")
       /\ refMap' = IF outcome = "getURL" THEN got.refMap ELSE refMap
       /\ UNCHANGED << diff, snapshot, currentUrl, messages, shown, toolCalls, step >>

\* a refresh whose diff is taken after the outline was replaced
RefreshGotAfterReplace(got, url, outcome) ==
  RefreshDiff(got, url, computeDiff(got.optimized, got.optimized, url, url), outcome)

RefreshGot(got, url, outcome) ==
  RefreshDiff(got, url, computeDiff(prevSnapshot, got.optimized, prevUrl, url), outcome)

Refresh ==
  /\ pc = "refresh"
  /\ \/ RefreshGot(getSnapshot(Pages[page].nodes), Pages[page].url, "getSnapshot")
     \/ \E outcome \in SnapshotOutcomes \ {"getSnapshot"} :
          RefreshGot(getSnapshot(Pages[page].nodes), Pages[page].url, outcome)
  /\ UNCHANGED << browser, page, faults, prevSnapshot, prevUrl, steps, modelCalls,
                  inputTokens, outputTokens, response, result >>

Next ==
  \/ RejectOptions \/ Construct \/ Launch \/ Navigate \/ InitialSnapshot
  \/ ChatTools \/ ChatText \/ ChatThrows \/ StepLimit
  \/ Done \/ ExecTool \/ ExecToolOnStepThrows \/ Refresh

Spec == Init /\ [][Next]_vars

\* the positions of browseWeb: before each awaited call, and after its return or
\* throw
Positions ==
  {"start", "launch", "navigate", "snapshot", "chat", "call", "refresh", "returned", "thrown"}

\* the awaited call browseWeb stands at returns or rejects: browseWeb leaves the
\* position
Resume == pc \notin {"returned", "thrown"} /\ pc' \in Positions \ {pc}

\* browseWeb is one sequential async function: when every awaited chat call and
\* browser operation settles, the function is resumed and does not stay at the
\* await for ever
SpecLive == Init /\ [][Next]_vars /\ WF_pc(Resume)

(***************************************************************************)
(* Properties of the agent loop.                                           *)
(***************************************************************************)
\* the states in which `snapshot` is the outline the last getSnapshot returned
\* and refMap the handle map it stored
SnapshotCurrent == pc \in {"chat", "call", "refresh"}

\* C1: after getSnapshot, every [ref=e<n>] on a line of the returned outline is a
\* key of the browser's handle map
ReferenceClosure ==
  SnapshotCurrent => \A r \in Range(collectRefs(snapshot)) : r \in DOMAIN refMap

\* C2: at every model call that follows a refresh, each reference the model was
\* last shown on an element is absent from the handle map or resolves to the
\* handle it labelled when shown
NoStaleReference ==
  (pc = "chat" /\ Len(messages) > 2) =>
    \A r \in DOMAIN shown : r \notin DOMAIN refMap \/ refMap[r] = shown[r]

\* the run returned on a first completion that is a single done call
S1 ==
  /\ pc = "returned"
  /\ modelCalls = 1
  /\ Len(messages) = 2
  /\ Len(toolCalls) = 1
  /\ Head(toolCalls).name = "done"

\* C7 as stated: in scenario S1 browseWeb returns done's result with
\* usage.modelCalls = 1 and one recorded step
S1OneStep ==
  S1 => /\ ret.kind = "return"
        /\ ret.result = StrText(Head(toolCalls).arguments.result)
        /\ ret.usage.modelCalls = 1
        /\ Len(ret.steps) = 1

\* C7: in scenario S1 browseWeb returns done's result with usage.modelCalls = 1
\* and no recorded step, done itself not being recorded
S1NoStep ==
  S1 => /\ ret.kind = "return"
        /\ ret.result = StrText(Head(toolCalls).arguments.result)
        /\ ret.usage.modelCalls = 1
        /\ Len(ret.steps) = 0

S1Reached == S1 /\ ret.result = StrText("found")

\* the result of the tool call last executed is a stringified error
ToolThrew == result # <<>> /\ << Head(result) >> = Lit("Error: ", 7)

\* the observation of the tool call last handled
LastObservation == messages[Len(messages)].content

\* the last tool call was handled and no other was started
JustObserved == pc \in {"chat", "call"} /\ Len(messages) > 2

\* C8 as stated: the observation of a tool call that threw starts with
\* 'Error: <message>'
ErrorOpensObservation ==
  (JustObserved /\ ToolThrew) => StartsWith(LastObservation, result)

\* C8: a tool call that throws is recorded as a step with result
\* 'Error: <message>', its observation starts with 'Action: Error: <message>',
\* and unless the refresh itself fails the loop goes on with the next tool call
\* of the completion, or with the next model call when there is none
ToolErrorSurfaced ==
  [][ /\ (pc = "call" /\ pc' = "refresh" /\ ToolThrew') =>
           /\ Len(steps') = Len(steps) + 1
           /\ steps'[Len(steps')].action = Head(toolCalls).name
           /\ steps'[Len(steps')].result = SliceText(result', RESULT_LIMIT)
      /\ (pc = "refresh" /\ ToolThrew /\ pc' # "thrown") =>
           /\ Len(messages') = Len(messages) + 2
           /\ messages'[Len(messages')].role = "tool"
           /\ StartsWith(messages'[Len(messages')].content, Lit("Action: ", 8) \o result)
           /\ toolCalls' = Tail(toolCalls)
           /\ pc' = (IF Tail(toolCalls) = <<>> THEN "chat" ELSE "call")
           /\ step' = (IF Tail(toolCalls) = <<>> THEN step + 1 ELSE step)
      /\ (pc = "call" /\ ToolThrew' /\ result' # result) => pc' \in {"refresh", "thrown"}
    ]_vars

\* an unknown reference was clicked, observed, and the loop went on
ToolErrorObserved ==
  /\ JustObserved /\ ToolThrew
  /\ StartsWith(result, Lit("Error: ", 7) \o Lit("Unknown ref: ", 13) \o RefText(99))
  /\ StartsWith(LastObservation, Lit("Action: ", 8) \o result)
  /\ steps # <<>>

\* C9: when browseWeb throws after the Browser exists, close() was called, it
\* is the last browser operation, and the error thrown is the one caught
CloseBeforeRethrow ==
  (pc = "thrown" /\ browser) =>
    /\ closed = 1
    /\ ops # <<>> /\ ops[Len(ops)] = "close"
    /\ ret.kind = "throw"
    /\ err # ""
    /\ ret.error = err

\* browseWeb threw the error of the onStep callback
OnStepErrorRethrown == pc = "thrown" /\ browser /\ ret.error = "onStep failed"

\* the tool calls handled so far, in order: one assistant message each
HandledCalls ==
  [i \in 1..((Len(messages) - 2) \div 2) |-> messages[2 * i + 1].tool_calls[1]]

\* the loop ran out of steps and browseWeb returned
Exhausted == pc = "returned" /\ step = maxSteps

\* C10: on step exhaustion browseWeb has closed the browser and returns the
\* step-limit message, usage.modelCalls = maxSteps, and steps with one entry per
\* executed tool call in execution order
StepExhaustion ==
  Exhausted =>
    /\ ret.kind = "return"
    /\ ret.result = Lit("Browser task hit step limit. Partial results may be available.", 62)
    /\ ret.usage.modelCalls = maxSteps
    /\ closed = 1 /\ ops[Len(ops)] = "close"
    /\ Len(ret.steps) = Len(HandledCalls)
    /\ \A i \in DOMAIN ret.steps :
         /\ ret.steps[i].action = HandledCalls[i].name
         /\ ret.steps[i].ref = HandledCalls[i].arguments.ref
         /\ (i > 1 => ret.steps[i - 1].step <= ret.steps[i].step)

\* the step limit was hit after a completion with two tool calls, one failing
ExhaustedAfterError ==
  /\ Exhausted
  /\ Len(ret.steps) > maxSteps
  /\ \E i \in DOMAIN ret.steps : StartsWith(ret.steps[i].result, Lit("Error: ", 7))

(***************************************************************************)
(* The reducers and the pipeline as functions, on bounded outlines.        *)
(***************************************************************************)
\* the longest outline the reducers are applied to
MaxLines == 3

\* the lines the outlines are made of; ref says that the line carries [ref=e<n>]
Shapes ==
  << [role |-> "banner", q |-> FALSE, name |-> <<>>, ref |-> FALSE, rest |-> <<>>],
     [role |-> "article", q |-> FALSE, name |-> <<>>, ref |-> FALSE, rest |-> <<>>],
     [role |-> "heading", q |-> TRUE, name |-> Nm("W119"), ref |-> TRUE,
      rest |-> << LevelTok(1) >>],
     [role |-> "link", q |-> TRUE, name |-> Nm2("W119", "w5"), ref |-> TRUE, rest |-> <<>>],
     [role |-> "link", q |-> TRUE, name |-> Nm2("Sponsored", "Nonstop"), ref |-> TRUE,
      rest |-> <<>>],
     [role |-> "text", q |-> FALSE, name |-> <<>>, ref |-> FALSE,
      rest |-> << [k |-> "value", n |-> 0] >>] >>

\* the line of shape s at position i (its reference is e<i>) with sp leading blanks
ShapeLine(s, i, sp) ==
  Line(sp, s.role, s.q, s.name, (IF s.ref THEN << RefTok(i) >> ELSE <<>>) \o s.rest)

\* the indentations a line after the outline o may have: top level, sibling or
\* child of the last line
NextIndents(o) == IF o = <<>> THEN {0} ELSE {0, o[Len(o)].sp, o[Len(o)].sp + 2}

RECURSIVE OutlinesOfLen(_)
OutlinesOfLen(n) ==
  IF n = 0 THEN { <<>> }
  ELSE UNION { { Append(o, ShapeLine(Shapes[k], n, sp)) :
                   k \in DOMAIN Shapes, sp \in NextIndents(o) } :
               o \in OutlinesOfLen(n - 1) }

Outlines == UNION { OutlinesOfLen(n) : n \in 0..MaxLines }

\* the variables a function under study leaves alone
idleVars ==
  << browser, diff, page, refMap, closed, ops, currentUrl, prevUrl, messages, steps,
     modelCalls, inputTokens, outputTokens, step, toolCalls, response, result, faults,
     err, ret, shown >>

Idle ==
  /\ browser = FALSE /\ diff = NoDiff /\ page = 5 /\ refMap = EmptyMap /\ closed = 0
  /\ ops = <<>> /\ currentUrl = "" /\ prevUrl = "" /\ messages = <<>> /\ steps = <<>>
  /\ modelCalls = 0 /\ inputTokens = 0 /\ outputTokens = 0 /\ step = 0
  /\ toolCalls = <<>> /\ response = "" /\ result = <<>> /\ faults = 0 /\ err = ""
  /\ ret = NoRet /\ shown = EmptyMap

\* maxItems of the runs of smartTruncate and optimizeAll on outlines of items
ItemLimit == 1

\* the lines the outlines of items are made of: a list item, an article and a
\* link whose name makes it a chrome line
ItemShapes ==
  << [role |-> "listitem", q |-> TRUE, name |-> Nm("News"), ref |-> TRUE, rest |-> <<>>],
     [role |-> "article", q |-> FALSE, name |-> <<>>, ref |-> FALSE, rest |-> <<>>],
     [role |-> "link", q |-> TRUE, name |-> Nm2("Sponsored", "Nonstop"), ref |-> TRUE,
      rest |-> <<>>] >>

RECURSIVE ItemOutlinesOfLen(_)
ItemOutlinesOfLen(n) ==
  IF n = 0 THEN { <<>> }
  ELSE UNION { { Append(o, ShapeLine(ItemShapes[k], n, sp)) :
                   k \in DOMAIN ItemShapes, sp \in NextIndents(o) } :
               o \in ItemOutlinesOfLen(n - 1) }

\* outlines of items: one line more than the outlines given to every reducer
ItemOutlines == UNION { ItemOutlinesOfLen(n) : n \in 0..(MaxLines + 1) }

\* the lines the outlines of text lines are made of: a text line without name
\* and one with a blank name, as axTreeToSnapshot writes them, a named text
\* line, '- text:', '- text: "<blanks>"', a placeholder line and a button
TextShapes ==
  << [role |-> "text", q |-> FALSE, name |-> <<>>, ref |-> FALSE, rest |-> <<>>],
     [role |-> "text", q |-> TRUE, name |-> Nm(Blank), ref |-> FALSE, rest |-> <<>>],
     [role |-> "text", q |-> TRUE, name |-> Nm("News"), ref |-> FALSE, rest |-> <<>>],
     [role |-> "text", q |-> FALSE, name |-> <<>>, ref |-> FALSE,
      rest |-> << [k |-> "value", n |-> 0] >>],
     [role |-> "text", q |-> FALSE, name |-> <<>>, ref |-> FALSE,
      rest |-> << [k |-> "value", n |-> 1] >>],
     [role |-> "/placeholder:", q |-> FALSE, name |-> <<>>, ref |-> FALSE, rest |-> <<>>],
     [role |-> "button", q |-> TRUE, name |-> Nm("Go"), ref |-> TRUE, rest |-> <<>>] >>

RECURSIVE TextOutlinesOfLen(_)
\* the outlines of n top-level lines of these shapes
TextOutlinesOfLen(n) ==
  IF n = 0 THEN { <<>> }
  ELSE { Append(o, ShapeLine(TextShapes[k], n, 0)) :
           o \in TextOutlinesOfLen(n - 1), k \in DOMAIN TextShapes }

TextOutlines == UNION { TextOutlinesOfLen(n) : n \in 1..MaxLines }

InitPipe ==
  /\ \/ pc = "input" /\ snapshot \in Outlines
     \/ pc = "items" /\ snapshot \in ItemOutlines
     \/ pc = "texts" /\ snapshot \in TextOutlines
  /\ prevSnapshot = <<>>
  /\ Idle

\* a function applied to the outline: prevSnapshot keeps its argument, snapshot
\* takes its value and pc its name
Applied(from, name, output) ==
  /\ pc = from
  /\ pc' = name
  /\ prevSnapshot' = snapshot
  /\ snapshot' = output
  /\ UNCHANGED idleVars

ApplyStripChrome == Applied("input", "stripChrome", stripChrome(snapshot))
ApplyPruneAttributes == Applied("input", "pruneAttributes", pruneAttributes(snapshot))
ApplyRemoveNoise == Applied("input", "removeNoise", removeNoise(snapshot))
ApplyDedupLinks == Applied("input", "dedupLinks", dedupLinks(snapshot))
ApplyCollapse ==
  Applied("input", "collapseRedundantChildren", collapseRedundantChildren(snapshot))
ApplySemanticCompress == Applied("input", "semanticCompress", semanticCompress(snapshot))
ApplyTruncateLongNames ==
  Applied("input", "truncateLongNames", truncateLongNames(snapshot, DEFAULT_MAX_NAME_LENGTH))
ApplyOptimizeAll == Applied("input", "optimizeAll", optimizeAll(snapshot, DefaultOptions))
ApplyOptimizeAllAgain ==
  Applied("optimizeAll", "optimizeAll twice", optimizeAll(snapshot, DefaultOptions))

ApplySmartTruncate == Applied("items", "smartTruncate", smartTruncate(snapshot, ItemLimit))
ApplyOptimizeItems ==
  Applied("items", "optimizeAll items", optimizeAll(snapshot, Options(ItemLimit)))

\* the sets of visible references the caller passes: none visible, the first
\* line's, the first and the last line's
VisibleSets == { {}, {1}, {1, MaxLines} }

\* a call with a set of visible references: shown keeps the set (as the domain
\* of a map), prevSnapshot the argument, snapshot the value
AppliedVisible(name, visible, output) ==
  /\ pc = "input"
  /\ pc' = name
  /\ shown' = [r \in visible |-> TRUE]
  /\ prevSnapshot' = snapshot
  /\ snapshot' = output
  /\ UNCHANGED << browser, diff, page, refMap, closed, ops, currentUrl, prevUrl, messages,
                  steps, modelCalls, inputTokens, outputTokens, step, toolCalls, response,
                  result, faults, err, ret >>

ApplyViewportOnly ==
  \E visible \in VisibleSets :
    AppliedVisible("viewportOnly", visible,
                   viewportOnly(snapshot, [given |-> TRUE, refs |-> visible]))

ApplyOptimizeVisible ==
  \E visible \in VisibleSets :
    AppliedVisible("optimizeAll visible", visible,
                   optimizeAll(snapshot, [DefaultOptions EXCEPT
                                            !.visibleRefs = [given |-> TRUE, refs |-> visible]]))

ApplyRemoveNoiseTexts == Applied("texts", "removeNoise texts", removeNoise(snapshot))

NextPipe ==
  \/ ApplyRemoveNoiseTexts \/ ApplyViewportOnly \/ ApplyOptimizeVisible
  \/ ApplyStripChrome \/ ApplyPruneAttributes \/ ApplyRemoveNoise \/ ApplyDedupLinks
  \/ ApplyCollapse \/ ApplySemanticCompress \/ ApplyTruncateLongNames
  \/ ApplyOptimizeAll \/ ApplyOptimizeAllAgain
  \/ ApplySmartTruncate \/ ApplyOptimizeItems

SpecPipe == InitPipe /\ [][NextPipe]_vars

\* the references of an outline, and those carried by lines with an interactive role
Refs(o) == Range(collectRefs(o))
InteractiveRefs(o) ==
  { REF_PATTERN(o[i]) : i \in { j \in DOMAIN o : o[j].role \in INTERACTIVE_ROLES } } \ {0}

LineOfRef(o, r) == CHOOSE j \in DOMAIN o : REF_PATTERN(o[j]) = r

\* line j of o lies in the subtree of a named link that repeats the name of an
\* earlier link placed after an article line
UnderRepeatedLink(o, j) ==
  \E d \in 1..j :
    /\ o[d].role = "link" /\ o[d].q /\ o[d].name # <<>>
    /\ j < getSubtreeEnd(o, d)
    /\ \E i \in 1..(d - 1) :
         /\ o[i].role = "link" /\ o[i].q /\ o[i].name = o[d].name
         /\ \E a \in 1..(i - 1) : o[a].role = "article"

Idempotent == pc = "optimizeAll twice" => snapshot = prevSnapshot

(***************************************************************************)
(* The differ as a function, on bounded pairs of outlines.                 *)
(***************************************************************************)
\* the longest outline given to the differ
MaxDiffLines == 2

\* the lines the differ's outlines are made of: two buttons, a text line (a noise
\* role), a table line (matched by ELEMENT_RE as tab) and a banner line (not
\* matched)
DiffShapes ==
  << [role |-> "button", q |-> TRUE, name |-> Nm("Save"), ref |-> TRUE, rest |-> <<>>],
     [role |-> "button", q |-> TRUE, name |-> Nm("Delete"), ref |-> TRUE, rest |-> <<>>],
     [role |-> "text", q |-> TRUE, name |-> Nm("Title"), ref |-> FALSE, rest |-> <<>>],
     [role |-> "table", q |-> TRUE, name |-> Nm("News"), ref |-> TRUE, rest |-> <<>>],
     [role |-> "banner", q |-> FALSE, name |-> <<>>, ref |-> FALSE, rest |-> <<>>] >>

RECURSIVE DiffOutlinesOfLen(_, _)
\* the outlines of n lines whose line i carries reference e<i + off>
DiffOutlinesOfLen(n, off) ==
  IF n = 0 THEN { <<>> }
  ELSE { Append(o, ShapeLine(DiffShapes[k], n + off, 0)) :
           o \in DiffOutlinesOfLen(n - 1, off), k \in DOMAIN DiffShapes }

DiffOutlines(off) == UNION { DiffOutlinesOfLen(n, off) : n \in 0..MaxDiffLines }

idleDiffVars ==
  << browser, page, refMap, closed, ops, snapshot, currentUrl, prevSnapshot, prevUrl,
     messages, steps, modelCalls, inputTokens, outputTokens, step, toolCalls, response,
     result, faults, err, ret, shown >>

InitDiff ==
  /\ pc = "pair"
  /\ prevSnapshot \in DiffOutlines(0)
  /\ snapshot \in DiffOutlines(0) \cup DiffOutlines(1)
  /\ prevUrl = "http://a.test/"
  /\ currentUrl \in {"http://a.test/", "http://a.test/news"}
  /\ diff = NoDiff
  /\ browser = FALSE /\ page = 5 /\ refMap = EmptyMap /\ closed = 0 /\ ops = <<>>
  /\ messages = <<>> /\ steps = <<>> /\ modelCalls = 0 /\ inputTokens = 0
  /\ outputTokens = 0 /\ step = 0 /\ toolCalls = <<>> /\ response = "" /\ result = <<>>
  /\ faults = 0 /\ err = "" /\ ret = NoRet /\ shown = EmptyMap

\* computeDiff applied to the pair
ApplyComputeDiff ==
  /\ pc = "pair"
  /\ pc' = "computeDiff"
  /\ diff' = computeDiff(prevSnapshot, snapshot, prevUrl, currentUrl)
  /\ UNCHANGED idleDiffVars

\* the observation browseWeb builds from the diff, for a tool that returned
\* 'Scrolled', and the two messages it pushes
ApplyObservation ==
  /\ pc = "computeDiff"
  /\ pc' = "observation"
  /\ result' = Lit("Scrolled", 8)
  /\ messages' = CallMessages(Call(1, "scroll", [NoArgs EXCEPT !.direction = "down"]),
                              CallId(Call(1, "scroll", NoArgs), step),
                              Observation(result', diff, currentUrl, snapshot))
  /\ UNCHANGED << browser, diff, page, refMap, closed, ops, snapshot, currentUrl,
                  prevSnapshot, prevUrl, steps, modelCalls, inputTokens, outputTokens,
                  step, toolCalls, response, faults, err, ret, shown >>

NextDiff == ApplyComputeDiff \/ ApplyObservation

SpecDiff == InitDiff /\ [][NextDiff]_vars

\* added + removed + changed of the diff computed
ChangedCount == diff.stats.added + diff.stats.removed + diff.stats.changed

\* C5: the diff of an outline with itself is empty, with no element added,
\* removed or changed
DiffSelfEmpty ==
  (pc = "computeDiff" /\ prevSnapshot = snapshot) =>
    /\ diff.isEmpty
    /\ diff.stats.added = 0 /\ diff.stats.removed = 0 /\ diff.stats.changed = 0

\* an outline with a referenced element, and one matched by role and name only,
\* was diffed with itself under a changed URL
DiffSelfComputed ==
  /\ pc = "computeDiff" /\ prevSnapshot = snapshot
  /\ prevUrl # currentUrl
  /\ diff.stats.unchanged = MaxDiffLines
  /\ \E i \in DOMAIN snapshot : ELEMENT_RE(snapshot[i]).ref # 0
  /\ \E i \in DOMAIN snapshot : ELEMENT_RE(snapshot[i]).ok /\ ELEMENT_RE(snapshot[i]).ref = 0

\* the number of diff lines of kind k
DiffLineCount(k) == Cardinality({ i \in DOMAIN diff.diff : diff.diff[i].k = k })

\* the counts are those of the diff lines, none of which adds or removes an
\* element of a noise role, and total counts the parsed current elements
FilteredCounts ==
  /\ diff.stats.added = DiffLineCount("+")
  /\ diff.stats.removed = DiffLineCount("-")
  /\ diff.stats.changed = DiffLineCount("~")
  /\ \A i \in DOMAIN diff.diff :
       diff.diff[i].k \in {"+", "-"} => diff.diff[i].el.role \notin NOISE_ROLES
  /\ diff.stats.total = Len(parseElements(snapshot))

\* C6 as stated: diffRatio is the quotient (added + removed + changed) / total and
\* isLargeDiff says that the quotient exceeds 0.7
RatioIsQuotient ==
  pc = "computeDiff" =>
    /\ FilteredCounts
    /\ diff.stats.diffRatio.num * diff.stats.total = ChangedCount * diff.stats.diffRatio.den
    /\ diff.isLargeDiff <=> (10 * ChangedCount > 7 * diff.stats.total)

\* C6: when the current outline has parsed elements, diffRatio is the quotient
\* (added + removed + changed) / total and isLargeDiff says that it exceeds 0.7;
\* when it has none, diffRatio is 1 and isLargeDiff is true
RatioIsQuotientOrOne ==
  pc = "computeDiff" =>
    /\ FilteredCounts
    /\ diff.stats.total > 0 =>
         /\ diff.stats.diffRatio.num * diff.stats.total
              = ChangedCount * diff.stats.diffRatio.den
         /\ diff.isLargeDiff <=> (10 * ChangedCount > 7 * diff.stats.total)
    /\ diff.stats.total = 0 =>
         /\ diff.stats.diffRatio.num = diff.stats.diffRatio.den
         /\ diff.isLargeDiff

\* a diff below the threshold, one of two elements changed and a noise element
\* left out; and a diff against an outline without elements
HalfChanged ==
  /\ pc = "computeDiff"
  /\ diff.stats.total = 2 /\ ChangedCount = 1 /\ ~diff.isLargeDiff
  /\ Len(parseElements(prevSnapshot)) > diff.stats.unchanged + diff.stats.removed


\* a text holds a part of kind s
HasPart(text, s) == \E i \in DOMAIN text : text[i].s = s

\* the content of the tool message pushed last
ObservationSent == messages[Len(messages)].content

\* the observation is the full-outline form: 'New page snapshot:' followed by the
\* current outline, with no 'Changes:' block and no 'No visible changes' line
IsOutlineObservation(text, outline) ==
  /\ HasPart(text, "\n\nNew page snapshot:\n")
  /\ text[Len(text)] = OutlinePart(outline)[1]
  /\ ~HasPart(text, "\n\nChanges:\n")
  /\ ~HasPart(text, "\nNo visible changes on the page.")

\* a current element is new: the previous outline has no element with its
\* reference and none with its role and name
IsNewElement(el, prev) ==
  /\ ~(el.ref # 0 /\ \E i \in DOMAIN prev : prev[i].ref = el.ref)
  /\ ~\E i \in DOMAIN prev : prev[i].role = el.role /\ prev[i].name = el.name

\* a current element is changed: the previous outline has its reference under
\* another name
IsChangedElement(el, prev) ==
  /\ el.ref # 0
  /\ \E i \in DOMAIN prev : prev[i].ref = el.ref
  /\ ByRefGet(prev, el.ref).name # el.name

\* how many elements of the current outline are new (with a role outside
\* skipped) or changed relative to the previous outline
NewOrChanged(skipped) ==
  LET prev == parseElements(prevSnapshot)
      curr == parseElements(snapshot)
  IN Cardinality({ i \in DOMAIN curr :
                     \/ IsNewElement(curr[i], prev) /\ curr[i].role \notin skipped
                     \/ IsChangedElement(curr[i], prev) })

\* C11 as stated: when more than 70% of the current outline's elements are new or
\* changed, whatever their roles, the observation is the full-outline form
LargeChangeSendsOutline ==
  (pc = "observation"
     /\ 10 * NewOrChanged({}) > 7 * Len(parseElements(snapshot)))
    => IsOutlineObservation(ObservationSent, snapshot)

\* C11: when the changed elements and the new elements of a role outside the
\* differ's noise roles are more than 70% of the current outline's elements, the
\* observation holds 'New page snapshot:' and the full current outline, and is
\* neither a 'Changes:' block nor 'No visible changes on the page.'
LargeChangeSendsOutlineAfterFilter ==
  (pc = "observation"
     /\ 10 * NewOrChanged(NOISE_ROLES) > 7 * Len(parseElements(snapshot)))
    => IsOutlineObservation(ObservationSent, snapshot)

\* both elements of the current outline count, one changed and one new, and the
\* full outline was sent
LargeChangeObserved ==
  /\ pc = "observation"
  /\ diff.stats.total = 2 /\ diff.stats.changed = 1 /\ diff.stats.added = 1
  /\ NewOrChanged(NOISE_ROLES) = 2
  /\ IsOutlineObservation(ObservationSent, snapshot)

(***************************************************************************)
(* Smart-Truncate on outlines of items.                                    *)
(***************************************************************************)
\* the line above line i that it is a child of (0: none)
ParentOf(lines, i) ==
  LET above == { j \in 1..(i - 1) : indentLevel(lines[j]) < indentLevel(lines[i]) }
  IN IF above = {} THEN 0 ELSE CHOOSE j \in above : \A k \in above : k <= j

IsItem(line) == parseLine(line).ok /\ line.role \in TRUNCATED_ROLES

\* lines i and j are siblings of one group: same parent, same indent, same role
SameGroup(lines, i, j) ==
  /\ IsItem(lines[i]) /\ IsItem(lines[j])
  /\ lines[i].role = lines[j].role
  /\ indentLevel(lines[i]) = indentLevel(lines[j])
  /\ ParentOf(lines, i) = ParentOf(lines, j)

\* the position of item i in its group, and the size of the group
RankInGroup(lines, i) == Cardinality({ j \in 1..i : SameGroup(lines, i, j) })
GroupSize(lines, i) == Cardinality({ j \in DOMAIN lines : SameGroup(lines, i, j) })

\* line i lies in the subtree of an item beyond the first K of its group
BeyondLimit(lines, i, K) ==
  \E a \in 1..i :
    /\ IsItem(lines[a]) /\ RankInGroup(lines, a) > K
    /\ i < getSubtreeEnd(lines, a)

\* item i is the first of its group beyond the first K, in a subtree that is kept
FirstBeyondLimit(lines, i, K) ==
  /\ IsItem(lines[i]) /\ RankInGroup(lines, i) = K + 1
  /\ \A a \in 1..(i - 1) : i < getSubtreeEnd(lines, a) => ~BeyondLimit(lines, a, K)

\* a summary line without its note of hidden references
SummaryOf(indent, remaining, role) ==
  Line(2 * indent, "text", TRUE,
       << [t |-> "summary", n |-> 0, r |-> role, x |-> << remaining >>] >>, <<>>)

WithoutRefNote(line) ==
  IF line.name # <<>> /\ line.name[1].t = "summary"
  THEN SummaryOf(indentLevel(line), line.name[1].x[1], line.name[1].r)
  ELSE line

RECURSIVE TruncatedByGroup(_, _, _)
\* the outline in which every group keeps its first K items with their subtrees
\* and has the others replaced by one summary line
TruncatedByGroup(lines, i, K) ==
  IF i > Len(lines) THEN <<>>
  ELSE (IF ~BeyondLimit(lines, i, K) THEN << lines[i] >>
        ELSE IF FirstBeyondLimit(lines, i, K)
        THEN << SummaryOf(indentLevel(lines[i]), GroupSize(lines, i) - K, lines[i].role) >>
        ELSE <<>>)
       \o TruncatedByGroup(lines, i + 1, K)

\* C12: smartTruncate keeps the first maxItems items of every group of siblings
\* with their subtrees and replaces the others of the group by one summary line
\* '... and M more <role>s' at the group's indent, for each group separately
TruncatesEachGroup ==
  pc = "smartTruncate" =>
    [i \in DOMAIN snapshot |-> WithoutRefNote(snapshot[i])]
      = TruncatedByGroup(prevSnapshot, 1, ItemLimit)

(***************************************************************************)
(* The Browser alone: the Outline Builder, getSnapshot and the             *)
(* reference-addressed actions, on bounded accessibility trees.  Here ops  *)
(* records the protocol commands sent and the events emitted.              *)
(***************************************************************************)
\* the most nodes a generated tree has below its root
MaxNodes == 3

\* the nodes the trees are made of: a button with and without a DOM handle, a
\* named and an unnamed list item, a node of a skipped role, a named paragraph
\* (mapped to text) and an inline text box
NodeShapes ==
  << [role |-> "button", name |-> Nm("Go"), dom |-> TRUE],
     [role |-> "button", name |-> Nm("Go"), dom |-> FALSE],
     [role |-> "listitem", name |-> Nm("News"), dom |-> TRUE],
     [role |-> "listitem", name |-> <<>>, dom |-> TRUE],
     [role |-> "none", name |-> <<>>, dom |-> TRUE],
     [role |-> "paragraph", name |-> Nm("News"), dom |-> TRUE],
     [role |-> "InlineTextBox", name |-> Nm("Go"), dom |-> TRUE] >>

RECURSIVE Factorial(_)
Factorial(n) == IF n = 0 THEN 1 ELSE n * Factorial(n - 1)

RECURSIVE Power(_, _)
Power(b, n) == IF n = 0 THEN 1 ELSE b * Power(b, n - 1)

\* how many trees have n nodes below the root: a shape for every node, and for
\* node i a parent among the root and the nodes before it
TreeCount(n) == Power(Len(NodeShapes), n) * Factorial(n)

RECURSIVE DecodeNodes(_, _, _)
\* nodes i..n of the tree numbered code
DecodeNodes(i, n, code) ==
  IF i > n THEN <<>>
  ELSE LET shape == NodeShapes[(code % Len(NodeShapes)) + 1]
           parent == ((code \div Len(NodeShapes)) % i) + 1
       IN << AXNode(i + 1, parent, shape.role, shape.name,
                    IF shape.dom THEN 10 + i ELSE 0) >>
          \o DecodeNodes(i + 1, n, code \div (Len(NodeShapes) * i))

RECURSIVE TreeFrom(_, _)
\* the p-th tree among those of n or more nodes below the root
TreeFrom(p, n) ==
  IF p <= TreeCount(n)
  THEN << AXNode(1, 0, "RootWebArea", <<>>, 1) >> \o DecodeNodes(1, n, p - 1)
  ELSE TreeFrom(p - TreeCount(n), n + 1)

RECURSIVE TreesUpTo(_)
TreesUpTo(n) == IF n < 0 THEN 0 ELSE TreeCount(n) + TreesUpTo(n - 1)

\* a list of two items more than getSnapshot's maxItems
ListNodes ==
  << AXNode(1, 0, "RootWebArea", <<>>, 1), AXNode(2, 1, "list", <<>>, 2) >>
  \o [i \in 1..(SNAPSHOT_MAX_ITEMS + 2) |-> AXNode(2 + i, 2, "listitem", Nm("News"), 100 + i)]

\* the node lists Accessibility.getFullAXTree may answer with: none, the long
\* list, and every generated tree
BrowserPages == 1..(2 + TreesUpTo(MaxNodes))

BrowserNodes(p) ==
  IF p = 1 THEN <<>> ELSE IF p = 2 THEN ListNodes ELSE TreeFrom(p - 2, 0)

\* the references the actions are called with
ActionRefs == {2, SNAPSHOT_MAX_ITEMS + 1}

InitBrowser ==
  /\ pc = "nodes"
  /\ page \in BrowserPages
  /\ browser = TRUE
  /\ snapshot = <<>> /\ prevSnapshot = <<>>
  /\ diff = NoDiff /\ refMap = EmptyMap /\ closed = 0
  /\ ops = <<>> /\ currentUrl = "" /\ prevUrl = "" /\ messages = <<>> /\ steps = <<>>
  /\ modelCalls = 0 /\ inputTokens = 0 /\ outputTokens = 0 /\ step = 0
  /\ toolCalls = <<>> /\ response = "" /\ result = <<>> /\ faults = 0 /\ err = ""
  /\ ret = NoRet /\ shown = EmptyMap

idleBrowserVars ==
  << browser, diff, page, closed, currentUrl, prevUrl, messages, steps, modelCalls,
     inputTokens, outputTokens, step, response, faults, ret, shown >>

\* getRawSnapshot(): the outline as built, and the handle map stored
GetRawSnapshot ==
  /\ pc = "nodes"
  /\ pc' = "getRawSnapshot"
  /\ ops' = Append(ops, "Accessibility.getFullAXTree")
  /\ snapshot' = axTreeToSnapshot(BrowserNodes(page)).snapshot
  /\ refMap' = axTreeToSnapshot(BrowserNodes(page)).refMap
  /\ prevSnapshot' = snapshot'
  /\ UNCHANGED << toolCalls, result, err >>
  /\ UNCHANGED idleBrowserVars

\* getSnapshot(): the optimized outline; prevSnapshot keeps the outline as built
GetSnapshot ==
  /\ pc = "nodes"
  /\ pc' = "getSnapshot"
  /\ ops' = ops \o << "Accessibility.getFullAXTree", "emit snapshot" >>
  /\ snapshot' = getSnapshot(BrowserNodes(page)).optimized
  /\ refMap' = getSnapshot(BrowserNodes(page)).refMap
  /\ prevSnapshot' = axTreeToSnapshot(BrowserNodes(page)).snapshot
  /\ UNCHANGED << toolCalls, result, err >>
  /\ UNCHANGED idleBrowserVars

\* clickRef, fillRef, hover or selectOption called after getSnapshot: toolCalls
\* keeps the call, result what it returned or the message of the Error thrown
RefActionOf(call, out) ==
  /\ pc' = "acted"
  /\ toolCalls' = << call >>
  /\ result' = out.text
  /\ err' = IF out.throws THEN "Error" ELSE ""
  /\ ops' = ops \o RefActionTrace(out.method, ~out.throws)
  /\ UNCHANGED << snapshot, prevSnapshot, refMap >>
  /\ UNCHANGED idleBrowserVars

RefAction ==
  /\ pc = "getSnapshot"
  /\ \E name \in REF_TOOLS, ref \in ActionRefs :
       RefActionOf(Call(0, name, [NoArgs EXCEPT !.ref = ref, !.text = "hi", !.value = "x"]),
                   executeBrowserTool(refMap, name,
                                      [NoArgs EXCEPT !.ref = ref, !.text = "hi", !.value = "x"],
                                      FALSE, 0))

NextBrowser == GetRawSnapshot \/ GetSnapshot \/ RefAction

SpecBrowser == InitBrowser /\ [][NextBrowser]_vars

\* the reference the action was called with
ActedRef == toolCalls[1].arguments.ref

\* the action failed with the Error 'Unknown ref: e<n>...'
FailedUnknownRef ==
  err = "Error" /\ StartsWith(result, Lit("Unknown ref: ", 13) \o RefText(ActedRef))

\* C13: after getSnapshot, a reference of the built outline that the optimized
\* outline no longer carries on an element line is not a key of the handle map,
\* every key of the handle map is a reference on an element line of the optimized
\* outline, and an action on a removed reference fails with Unknown ref
HiddenRefsUnusable ==
  /\ pc = "getSnapshot" =>
       /\ \A r \in Refs(prevSnapshot) \ Refs(snapshot) : r \notin DOMAIN refMap
       /\ DOMAIN refMap \subseteq Refs(snapshot)
  /\ (pc = "acted" /\ ActedRef \in Refs(prevSnapshot) \ Refs(snapshot)) => FailedUnknownRef

\* C14: a reference-addressed action called with a reference that does not
\* resolve fails with Unknown ref, its message names the first ten references of
\* the handle map, and no protocol command was sent and no event emitted
UnknownRefFailsClean ==
  (pc = "acted" /\ ~Resolves(refMap, ActedRef)) =>
    /\ FailedUnknownRef
    /\ StartsWith(result, Lit("Unknown ref: ", 13) \o RefText(ActedRef)
                            \o Lit(". Available refs: ", 18)
                            \o JoinRefs(Take(SortedKeys(DOMAIN refMap), 10)))
    /\ ops = << "Accessibility.getFullAXTree", "emit snapshot" >>

\* C15: the references on the lines of the outline axTreeToSnapshot builds, read
\* top to bottom, are e1, e2, ..., eK: no gap, no repetition, and no line carries
\* two
MonotoneNumbering ==
  pc = "getRawSnapshot" =>
    /\ collectRefs(snapshot) = [k \in 1..Len(collectRefs(snapshot)) |-> k]
    /\ \A i \in DOMAIN snapshot : Len(RefsOfRest(snapshot[i].rest)) <= 1

\* an outline was built with two references or more, a line without a reference
\* before the last of them, and a reference that has no handle
NumberedWithGaps ==
  /\ pc = "getRawSnapshot"
  /\ Len(collectRefs(snapshot)) >= 2
  /\ \E i \in 1..(Len(snapshot) - 1) :
       REF_PATTERN(snapshot[i]) = 0 /\ REF_PATTERN(snapshot[i + 1]) # 0
  /\ \E r \in Refs(snapshot) : r \notin DOMAIN refMap


(***************************************************************************)
(* Indentation of the pipeline's output.                                   *)
(***************************************************************************)
EvenIndented(o) == \A i \in DOMAIN o : ~IsBlank(o[i]) => o[i].sp % 2 = 0

IsChromeActionsLine(line) ==
  line.role = "group" /\ line.q /\ line.name = Nm("chrome-actions")

\* a line smartTruncate wrote in place of the items beyond maxItems
IsSummaryLine(line) ==
  line.role = "text" /\ line.q /\ line.name # <<>> /\ line.name[1].t = "summary"

\* C16: when every non-blank line of the input has an even number of leading
\* blanks, so has every non-blank line of optimizeAll's output, the
\* chrome-actions lines and the summary lines included
IndentationWellFormed ==
  (pc \in {"optimizeAll", "optimizeAll twice", "optimizeAll items"}
   /\ EvenIndented(prevSnapshot))
    => EvenIndented(snapshot)

\* an output of optimizeAll with a summary line below the top level and the
\* chrome-actions block
IndentedSummaryAndChromeActions ==
  /\ pc = "optimizeAll items"
  /\ \E i \in DOMAIN snapshot : IsSummaryLine(snapshot[i]) /\ snapshot[i].sp >= 2
  /\ \E i \in DOMAIN snapshot :
       /\ IsChromeActionsLine(snapshot[i])
       /\ i < Len(snapshot) /\ snapshot[i + 1].sp = 2


(***************************************************************************)
(* stripChrome's rescue of interactive references.                         *)
(***************************************************************************)
\* line i of o is a chrome line or lies in the subtree of one
InChromeSubtree(o, i) ==
  \E j \in 1..i :
    /\ parseLine(o[j]).ok /\ isChromeLine(parseLine(o[j]), o, j)
    /\ \A k \in (j + 1)..i : indentLevel(o[k]) > indentLevel(o[j])

\* line i of o is an interactive-role line with a reference
IsInteractiveRefLine(o, i) ==
  parseLine(o[i]).ok /\ o[i].role \in INTERACTIVE_ROLES /\ REF_PATTERN(o[i]) # 0

RECURSIVE DroppedInteractiveRefsFrom(_, _)
DroppedInteractiveRefsFrom(o, i) ==
  IF i > Len(o) THEN <<>>
  ELSE (IF InChromeSubtree(o, i) /\ IsInteractiveRefLine(o, i)
        THEN << REF_PATTERN(o[i]) >> ELSE <<>>)
       \o DroppedInteractiveRefsFrom(o, i + 1)

\* the references of the interactive lines stripChrome drops from o, in order
DroppedInteractiveRefs(o) == DroppedInteractiveRefsFrom(o, 1)

ChromeActionsLines(o) == { i \in DOMAIN o : IsChromeActionsLine(o[i]) }

\* C17: every reference of an interactive line on or below a dropped chrome
\* line appears exactly once in stripChrome's output, below one chrome-actions
\* line that ends the output, in the original order; there is no such line
\* when no interactive reference was dropped
ChromeRescue ==
  pc = "stripChrome" =>
    LET R == DroppedInteractiveRefs(prevSnapshot)
        n == Len(snapshot)
    IN IF R = <<>> THEN ChromeActionsLines(snapshot) = {}
       ELSE /\ n > Len(R)
            /\ ChromeActionsLines(snapshot) = { n - Len(R) }
            /\ snapshot[n - Len(R)].sp = 0
            /\ \A k \in DOMAIN R :
                 /\ snapshot[n - Len(R) + k].sp = 2
                 /\ REF_PATTERN(snapshot[n - Len(R) + k]) = R[k]
                 /\ Cardinality({ i \in DOMAIN snapshot :
                                    R[k] \in Range(RefsOfRest(snapshot[i].rest)) }) = 1

\* two interactive references rescued from chrome, below a line that was kept
TwoRefsRescued ==
  /\ pc = "stripChrome"
  /\ Len(DroppedInteractiveRefs(prevSnapshot)) >= 2
  /\ Len(snapshot) > Len(DroppedInteractiveRefs(prevSnapshot)) + 1


(***************************************************************************)
(* The done call.                                                          *)
(***************************************************************************)
\* browseWeb returned from the done branch: the done call is still the first of
\* the calls not handled
ReturnedByDone == pc = "returned" /\ toolCalls # <<>> /\ Head(toolCalls).name = "done"

\* c is the completion whose calls end with the calls not handled
IsCurrentCompletion(c) ==
  /\ c.content = response
  /\ Len(c.toolCalls) >= Len(toolCalls)
  /\ SubSeq(c.toolCalls, Len(c.toolCalls) - Len(toolCalls) + 1, Len(c.toolCalls)) = toolCalls

\* C18: on a done call browseWeb closes the browser once, as its last browser
\* operation, and returns the call's result; the calls listed before done in
\* that completion were executed in order and are the only steps of this
\* iteration, one model call was made per iteration, and nothing follows
DoneReturns ==
  ReturnedByDone =>
    /\ ret.kind = "return"
    /\ ret.result = StrText(Head(toolCalls).arguments.result)
    /\ ret.steps = steps
    /\ closed = 1
    /\ ops[Len(ops)] = "close"
    /\ \A i \in 1..(Len(ops) - 1) : ops[i] # "close"
    /\ modelCalls = step + 1 /\ ret.usage.modelCalls = modelCalls
    /\ \E c \in Completions :
         /\ IsCurrentCompletion(c)
         /\ LET k == Len(c.toolCalls) - Len(toolCalls)
                n == Len(steps)
            IN /\ n >= k /\ Len(HandledCalls) = n
               /\ \A i \in 1..k :
                    /\ steps[n - k + i].action = c.toolCalls[i].name
                    /\ steps[n - k + i].step = step + 1
                    /\ HandledCalls[n - k + i].name = c.toolCalls[i].name
               /\ \A i \in 1..(n - k) : steps[i].step <= step
    /\ ~ENABLED Next

\* a done call in the second completion, after a press_key call and before a
\* scroll call
DoneBetweenCalls ==
  /\ ReturnedByDone
  /\ Len(toolCalls) = 2 /\ toolCalls[2].name = "scroll"
  /\ step = 1 /\ Len(steps) >= 2 /\ steps[Len(steps)].action = "press_key"


(***************************************************************************)
(* The three forms of the observation.                                     *)
(***************************************************************************)
NoChangeObservation ==
  Lit("Action: ", 8) \o result \o Lit("\nNo visible changes on the page.", 32)

SnapshotObservation ==
  Lit("Action: ", 8) \o result \o Lit("\nURL: ", 6) \o StrText(currentUrl)
  \o Lit("\n\nNew page snapshot:\n", 21) \o OutlinePart(snapshot)

ChangesObservation ==
  Lit("Action: ", 8) \o result \o Lit("\n\nChanges:\n", 11) \o DiffPart(diff.diff)

\* C19: the observation of a handled tool call is the no-change text when the
\* diff is empty, else the URL and the full new outline when the diff is
\* large, else the diff text; it is a tool message and exactly one of the three
ObservationForms ==
  JustObserved =>
    /\ messages[Len(messages)].role = "tool"
    /\ diff.isEmpty => LastObservation = NoChangeObservation
    /\ (~diff.isEmpty /\ diff.isLargeDiff) => LastObservation = SnapshotObservation
    /\ (~diff.isEmpty /\ ~diff.isLargeDiff) => LastObservation = ChangesObservation
    /\ Cardinality({ o \in {NoChangeObservation, SnapshotObservation, ChangesObservation} :
                       o = LastObservation }) = 1

\* a diff both empty and large (the new outline has no element) observed as no
\* change
EmptyLargeDiffObserved ==
  /\ JustObserved /\ diff.isEmpty /\ diff.isLargeDiff
  /\ LastObservation = NoChangeObservation


(***************************************************************************)
(* Order of action, refresh and diff within one tool call.                 *)
(***************************************************************************)
\* C20: the tool's browser operation is recorded before getSnapshot and getURL
\* of the refresh; the action leaves outline and handle map as the previous
\* refresh (or the initial outline) left them and keeps that outline as
\* prevSnapshot; the refresh takes the outline of the page the action led to,
\* replaces the handle map by the one built with it, and the diff is computed
\* from the outline before the action to the new one
ActionThenRefresh ==
  [][ /\ (pc = "call" /\ pc' = "refresh") =>
           /\ ops' = ToolOps(Head(toolCalls))
           /\ prevSnapshot' = snapshot /\ prevUrl' = currentUrl
           /\ snapshot' = snapshot /\ refMap' = refMap
           /\ toolCalls' = toolCalls
      /\ (pc = "refresh" /\ pc' \in {"chat", "call"}) =>
           /\ ops' = ops \o << "getSnapshot", "getURL" >>
           /\ prevSnapshot = snapshot /\ prevSnapshot' = prevSnapshot
           /\ snapshot' = getSnapshot(Pages[page].nodes).optimized
           /\ refMap' = getSnapshot(Pages[page].nodes).refMap
           /\ currentUrl' = Pages[page].url
           /\ diff' = computeDiff(snapshot, snapshot', currentUrl, currentUrl')
           /\ toolCalls' = Tail(toolCalls)
    ]_vars

\* the first of two calls of one completion changed the page: its click came
\* before the refresh, and the second call is next
RefreshedBetweenCalls ==
  /\ pc = "call" /\ Len(messages) > 2
  /\ Len(toolCalls) = 1 /\ toolCalls[1].name = "hover"
  /\ prevSnapshot # snapshot /\ ~diff.isEmpty
  /\ Len(ops) >= 3
  /\ SubSeq(ops, Len(ops) - 2, Len(ops)) = << "clickRef", "getSnapshot", "getURL" >>


(***************************************************************************)
(* Order of the message list.                                              *)
(***************************************************************************)
\* every assistant message with a tool call is followed at once by the tool
\* message of that call's id
ToolCallsAnswered(msgs) ==
  \A i \in DOMAIN msgs :
    (msgs[i].role = "assistant" /\ msgs[i].tool_calls # <<>>) =>
      /\ i < Len(msgs)
      /\ msgs[i + 1].role = "tool"
      /\ msgs[i + 1].tool_call_id = msgs[i].tool_calls[1].id

\* C21: the message list only grows; when a model call is made every tool call
\* of the turns before has its two messages in the list; and every assistant
\* message carrying a tool call is followed at once by the tool message with
\* that call's id
MessageOrdering ==
  [][ /\ (messages # <<>> => IsPrefix(messages, messages'))
      /\ (modelCalls' # modelCalls =>
            /\ toolCalls = <<>>
            /\ Len(messages) = 2 + 2 * Len(steps)
            /\ messages' = messages)
      /\ ToolCallsAnswered(messages')
    ]_vars

\* the second model call was made after a completion of two tool calls, both
\* observed
SecondTurnAfterTwoCalls ==
  /\ modelCalls = 2 /\ pc = "call"
  /\ Len(messages) = 6
  /\ messages[3].role = "assistant" /\ messages[4].role = "tool"
  /\ messages[5].role = "assistant" /\ messages[6].role = "tool"


(***************************************************************************)
(* The builder's references, from the tree alone.  In the generated node   *)
(* lists a node's id is its index and its parent comes before it.          *)
(***************************************************************************)
RECURSIVE PathOf(_, _)
\* the nodes from the root down to node i
PathOf(nodes, i) ==
  IF nodes[i].parentId = 0 THEN << i >>
  ELSE Append(PathOf(nodes, nodes[i].parentId), i)

\* node i comes before node j when the tree is walked parents first, children
\* in the order of the list
WalkedBefore(nodes, i, j) ==
  LET p == PathOf(nodes, i)
      q == PathOf(nodes, j)
  IN \/ Len(p) < Len(q) /\ SubSeq(q, 1, Len(p)) = p
     \/ \E k \in 1..Min2(Len(p), Len(q)) :
          /\ SubSeq(p, 1, k - 1) = SubSeq(q, 1, k - 1)
          /\ p[k] < q[k]

\* a node whose subtree is left out
CutsSubtree(node) == node.role \in {"InlineTextBox", "LineBreak"}

\* node i gets a line: it is below the root, no node between the root and it
\* cuts its subtree, and its role is neither skipped nor unmapped
IsEmitted(nodes, i) ==
  LET p == PathOf(nodes, i)
  IN /\ Len(p) >= 2
     /\ \A k \in 2..Len(p) : ~CutsSubtree(nodes[p[k]])
     /\ nodes[i].role \notin SKIP_ROLES
     /\ nodes[i].role \in DOMAIN RoleMap

EmittedNodes(nodes) == { i \in DOMAIN nodes : IsEmitted(nodes, i) }

\* the rule of the specification for a reference
BearsRef(node) ==
  \/ RoleMap[node.role] \in INTERACTIVE_ROLES
  \/ (node.name # <<>> /\ RoleMap[node.role] \notin {"generic", "text"})

\* the line of emitted node i and the number of its reference
LineNoOf(nodes, i) ==
  Cardinality({ j \in EmittedNodes(nodes) : j = i \/ WalkedBefore(nodes, j, i) })
RefNoOf(nodes, i) ==
  Cardinality({ j \in EmittedNodes(nodes) :
                  BearsRef(nodes[j]) /\ (j = i \/ WalkedBefore(nodes, j, i)) })

MatchesByRef(c, prev) == c.ref # 0 /\ \E i \in DOMAIN prev : prev[i].ref = c.ref

\* current element c is matched by role and name only
MatchesByRoleName(c, prev) ==
  /\ ~MatchesByRef(c, prev)
  /\ \E i \in DOMAIN prev : prev[i].role = c.role /\ prev[i].name = c.name

\* the class of current element c
ClassOf(c, prev) ==
  IF MatchesByRef(c, prev)
  THEN (IF \E i \in DOMAIN prev : prev[i].ref = c.ref /\ prev[i].name # c.name
        THEN "changed" ELSE "unchanged")
  ELSE IF MatchesByRoleName(c, prev) THEN "unchanged"
  ELSE "added"

\* previous element p had one of its keys recorded by a match
KeyRecorded(p, prev, curr) ==
  \/ p.ref # 0 /\ \E i \in DOMAIN curr : MatchesByRef(curr[i], prev) /\ curr[i].ref = p.ref
  \/ \E i \in DOMAIN curr :
       MatchesByRoleName(curr[i], prev) /\ curr[i].role = p.role /\ curr[i].name = p.name

\* the elements of the diff lines of kind k, in order
DiffElements(k) ==
  LET hit == SelectSeq(diff.diff, LAMBDA l : l.k = k)
  IN [i \in DOMAIN hit |-> hit[i].el]

NonNoiseLines(o) ==
  { i \in DOMAIN o : ELEMENT_RE(o[i]).ok /\ o[i].role \notin NOISE_ROLES }

\* the element computeDiff parses from a line
ElementOfLine(line) ==
  Element(ELEMENT_RE(line).role, ELEMENT_RE(line).name, ELEMENT_RE(line).ref)

\* C24: a line whose role is one of the ten noise roles is never rendered as
\* an addition or a removal and never counted in stats.added or
\* stats.removed: every addition is the element of a current line of another
\* role, every removal that of a previous line of another role, and the two
\* counts do not exceed the numbers of such lines
NoiseNeverReported ==
  pc = "computeDiff" =>
    /\ diff.stats.added <= Cardinality(NonNoiseLines(snapshot))
    /\ diff.stats.removed <= Cardinality(NonNoiseLines(prevSnapshot))
    /\ \A i \in DOMAIN diff.diff :
         /\ diff.diff[i].k = "+" =>
              \E j \in NonNoiseLines(snapshot) : ElementOfLine(snapshot[j]) = diff.diff[i].el
         /\ diff.diff[i].k = "-" =>
              \E j \in NonNoiseLines(prevSnapshot) :
                ElementOfLine(prevSnapshot[j]) = diff.diff[i].el


(***************************************************************************)
(* removeNoise on text lines.                                              *)
(***************************************************************************)
\* a name that is empty or made of blanks only
IsBlankName(line) == ~line.q \/ \A i \in DOMAIN line.name : IsWs(line.name[i])

\* the lines the specification has removeNoise drop: a placeholder line, and
\* a text line whose name is empty or blank and that carries no other text
DroppedAsNoise(line) ==
  \/ line.role = "/placeholder:"
  \/ /\ line.role = "text"
     /\ IsBlankName(line)
     /\ \A i \in DOMAIN line.rest : line.rest[i].k = "value" /\ line.rest[i].n \in {0, 1}

\* C25: removeNoise drops every placeholder line and every text line whose
\* name is empty or blank, and keeps every other line, unchanged and in order
NoiseDropped ==
  pc = "removeNoise texts" =>
    snapshot = Join(SelectSeq(Split(prevSnapshot), LAMBDA line : ~DroppedAsNoise(line)))


(***************************************************************************)
(* The viewport filter.                                                    *)
(***************************************************************************)
\* the set of visible references of the call
VisibleRefs == DOMAIN shown

\* C26: when a set of visible references is passed, every line of the output
\* with a reference has it in the set, and every line without one has a line
\* below it, in its subtree, whose reference is in the set
ViewportFilter ==
  pc \in {"viewportOnly", "optimizeAll visible"} =>
    \A i \in DOMAIN snapshot :
      IF REF_PATTERN(snapshot[i]) # 0
      THEN REF_PATTERN(snapshot[i]) \in VisibleRefs
      ELSE HasRefBelow(snapshot, i + 1, indentLevel(snapshot[i]), VisibleRefs)


(***************************************************************************)
(* collapseRedundantChildren and interactive descendants.                  *)
(***************************************************************************)
\* line i of o is a link or button whose name is longer than 40 characters
IsLongNamedParent(o, i) ==
  /\ parseLine(o[i]).ok /\ o[i].role \in {"link", "button"}
  /\ Truthy(parseLine(o[i])) /\ NameLength(o[i].name) > 40

\* line j of o lies in the subtree of line i
InSubtree(o, i, j) == i < j /\ j < getSubtreeEnd(o, i)

\* C27: every line of the input with an interactive role and a reference, and
\* every link or button line that is in no other line's subtree, is a line of
\* collapseRedundantChildren's output
InteractiveDescendantsKept ==
  pc = "collapseRedundantChildren" =>
    \A i \in DOMAIN prevSnapshot :
      (\/ IsInteractiveRefLine(prevSnapshot, i)
       \/ (parseLine(prevSnapshot[i]).ok /\ prevSnapshot[i].role \in {"link", "button"}
           /\ ~\E k \in 1..(i - 1) : InSubtree(prevSnapshot, k, i)))
        => \E j \in DOMAIN snapshot : snapshot[j] = prevSnapshot[i]

\* a long-named link with a redundant heading and an interactive link below
\* it, all kept
InteractiveChildBlocksCollapse ==
  /\ pc = "collapseRedundantChildren"
  /\ snapshot = prevSnapshot
  /\ \E i \in DOMAIN prevSnapshot :
       /\ IsLongNamedParent(prevSnapshot, i)
       /\ \E j \in DOMAIN prevSnapshot :
            /\ InSubtree(prevSnapshot, i, j) /\ IsInteractiveRefLine(prevSnapshot, j)
            /\ ChildIsRedundantByNameOnly(parseLine(prevSnapshot[j]),
                                          toLowerCase(prevSnapshot[i].name))
       /\ \E j \in DOMAIN prevSnapshot :
            InSubtree(prevSnapshot, i, j) /\ prevSnapshot[j].role = "heading"

(***************************************************************************)
(* isEmpty and isLargeDiff of one diff.                                    *)
(***************************************************************************)
\* the number computeDiff compares with 0 for isEmpty
ChangedElements == diff.stats.added + diff.stats.removed + diff.stats.changed

\* C28 as stated: computeDiff never reports isEmpty and isLargeDiff both true
NeverEmptyAndLarge ==
  pc = "computeDiff" => ~(diff.isEmpty /\ diff.isLargeDiff)

\* C28: computeDiff reports isEmpty and isLargeDiff both true exactly when the
\* current outline has no parsed element and nothing was added, removed or
\* changed after the noise filter
EmptyAndLargeOnlyWithoutElements ==
  pc = "computeDiff" =>
    ((diff.isEmpty /\ diff.isLargeDiff)
       <=> (diff.stats.total = 0 /\ ChangedElements = 0))

\* a diff both empty and large, from a previous outline that had lines
EmptyAndLargeDiff ==
  /\ pc = "computeDiff" /\ diff.isEmpty /\ diff.isLargeDiff
  /\ prevSnapshot # <<>> /\ parseElements(snapshot) = <<>>

(***************************************************************************)
(* Termination and the bound on model calls.                               *)
(***************************************************************************)
\* browseWeb has returned or thrown
Terminated == pc \in {"returned", "thrown"}

\* the return of browseWeb: close() was called once and is the last operation,
\* and the usage reports at most maxSteps model calls
NormalReturn ==
  pc = "returned" =>
    /\ closed = 1
    /\ ops # <<>> /\ ops[Len(ops)] = "close"
    /\ \A i \in 1..(Len(ops) - 1) : ops[i] # "close"
    /\ ret.usage.modelCalls = modelCalls

\* C29: when every chat call and browser operation returns, browseWeb
\* terminates, it never makes more than maxSteps model calls, and on every
\* normal return close() was called exactly once, as the last browser
\* operation; every step is taken from a position before the return or throw
\* and leaves it
TerminatesWithinMaxSteps ==
  /\ <>Terminated
  /\ [](modelCalls <= maxSteps)
  /\ []NormalReturn
  /\ [][~Terminated /\ pc' \in Positions \ {pc}]_vars

\* a return at the step limit after maxSteps model calls that each ran a tool
ReturnedAtStepLimit ==
  /\ pc = "returned" /\ step = maxSteps /\ modelCalls = maxSteps
  /\ Len(steps) >= maxSteps /\ closed = 1

(***************************************************************************)
(* Identifiers of the tool calls in the message list.                      *)
(***************************************************************************)
\* the message carries a tool-call id that browseWeb generated (call_<step>)
\* because the call had none
HasGeneratedId(m) ==
  \/ m.role = "assistant" /\ m.tool_calls # <<>> /\ m.tool_calls[1].id.pfx = "call_"
  \/ m.role = "tool" /\ m.tool_call_id.pfx = "call_"

\* the tool-call id a message carries
IdOfMessage(m) == IF m.role = "tool" THEN m.tool_call_id ELSE m.tool_calls[1].id

\* C30: no two assistant messages, and no two tool messages, of the list carry
\* the same generated tool-call id
UniqueToolCallIds ==
  \A i, j \in DOMAIN messages :
    (/\ i < j
     /\ messages[i].role = messages[j].role
     /\ HasGeneratedId(messages[i]) /\ HasGeneratedId(messages[j]))
      => IdOfMessage(messages[i]) # IdOfMessage(messages[j])

=============================================================================
